---- MODULE Spec2Model ----
(***************************************************************************)
(* Model of the dataset adapter and indexing engine of V2X-Scene-Explorer  *)
(* (apps/server/datasets.py): the DatasetStore with its lazily built,      *)
(* lock-guarded adapters, the per-family scene index builders and the      *)
(* adapter query interface (list_intersections, list_scenes, locate_scene, *)
(* load_scene_bundle).                                                     *)
(***************************************************************************)
EXTENDS Integers, Sequences, FiniteSets, TLC

VARIABLES
    specs,           \* DatasetStore.specs: dataset id -> family
    adapters,        \* DatasetStore.adapters: dataset id -> adapter
    adapter_errors,  \* DatasetStore._adapter_errors: dataset id -> message
    adapter_lock,    \* DatasetStore._adapter_lock: 0 when free, else the holder
    pc,              \* per request thread: position inside get_adapter
    req,             \* per request thread: the dataset id it asked for
    ret,             \* what the last get_adapter call to finish gave
    builds,          \* dataset id -> number of _build_adapter invocations
    returned,        \* dataset id -> outcomes get_adapter gave past the lookup
    resp,            \* the response of the last adapter operation
    on_disk          \* what stays in place between requests: files, or an input

vars == <<specs, adapters, adapter_errors, adapter_lock, pc, req, ret, builds,
          returned, resp, on_disk>>

storeVars == <<specs, adapters, adapter_errors, adapter_lock, pc, req, ret,
               builds, returned, on_disk>>

----------------------------------------------------------------------------
(* Bounds of the model.                                                    *)

MaxRows == 2        \* rows of a scene table / files of a folder / log rows
NumThreads == 2     \* request threads of the HTTP server
MaxGroups == 2      \* recordings, city blocks per dataset
MaxFileRows == 2    \* data rows of a scene file read by load_scene_bundle
CsvCacheMaxItems == 6   \* capacity of the parsed-CSV cache (24 in the source)

----------------------------------------------------------------------------
(* Python values.                                                          *)

None == "None"

Falsy(x) == x = None \/ x = ""

\* Python's `a or b` on strings / None.
Or(a, b) == IF Falsy(a) THEN b ELSE a

Min(a, b) == IF a <= b THEN a ELSE b

Max(a, b) == IF a >= b THEN a ELSE b

Range(s) == {s[i] : i \in 1..Len(s)}

\* seq[offset : offset + limit] for offset, limit >= 0.
Slice(s, offset, limit) ==
    IF offset >= Len(s) THEN <<>>
    ELSE SubSeq(s, offset + 1, Min(Len(s), offset + limit))

\* dict.get on a function used as a dict.
Get(d, k, default) == IF k \in DOMAIN d THEN d[k] ELSE default

\* d[k] = v on a function used as a dict.
Put(d, k, v) == [x \in (DOMAIN d) \cup {k} |-> IF x = k THEN v ELSE d[x]]

EmptyDict == [x \in {} |-> None]

\* {sid: i for i, sid in enumerate(ids)}
Enumerate(ids) == [x \in Range(ids) |-> (CHOOSE i \in 1..Len(ids) : ids[i] = x) - 1]

\* All sequences over S of length at most n.
SeqUpTo(S, n) == UNION {[1..k -> S] : k \in 0..n}

----------------------------------------------------------------------------
(* Strings the model needs to compare and convert.                         *)

\* The strings the code sorts by (scene ids of V2X file stems and table
\* rows, location, city and sensor ids), in ascending code-point order
\* (Python's str comparison).
StrOrder == <<"1", "10", "2", "base", "base__A", "base__A_1", "c1", "c2", "x">>

StrLess(a, b) ==
    (CHOOSE i \in 1..Len(StrOrder) : StrOrder[i] = a)
        < (CHOOSE i \in 1..Len(StrOrder) : StrOrder[i] = b)

\* int(scene_id) where it parses.
IntOf == [s \in {"10", "2"} |-> IF s = "10" THEN 10 ELSE 2]

\* str(n) for the scene numbers the windowed families assign.
StrOf == <<"1", "2", "3", "4", "5", "6", "7", "8", "9", "10", "11", "12">>

\* The key of an id that is no integer: 10**18 in the source, above every
\* integer id; scaled here to TLC's 32-bit integers.
NonNumericKey == 1000000000

\* V2XTrajAdapter._scene_sort_key
SceneSortKey(sid) ==
    IF sid \in DOMAIN IntOf THEN <<IntOf[sid], sid>> ELSE <<NonNumericKey, sid>>

\* Python tuple comparison of two sort keys (int, str).
KeyLessEq(a, b) ==
    LET ka == SceneSortKey(a)
        kb == SceneSortKey(b)
    IN \/ ka[1] < kb[1]
       \/ ka[1] = kb[1] /\ (a = b \/ StrLess(a, b))

----------------------------------------------------------------------------
(* V2X-Traj / V2X-Seq: the scene index.                                    *)
(* A scene table row, or a scene CSV file found in a modality folder, is   *)
(* [split, sid, gid, mod]: the split of its table / folder, the scene id   *)
(* (file stem), the intersect_id it carries ("" when empty) and its        *)
(* modality.                                                               *)

V2XSplits == {"train", "val"}

V2XRows ==
    [split : {"train", "test"}, sid : {"2", "10", "x"},
     gid : {"", "g1"}, mod : {"ego", "traffic_light"}]

\* V2XTrajAdapter.__init__: the empty index.
V2XEmpty ==
    [scenes |-> [sp \in V2XSplits |-> EmptyDict],
     keys |-> [sp \in V2XSplits |-> <<>>]]

\* One row of _load_scenes_csv / one file of _load_scenes_from_dirs: create
\* the SceneSummary if absent, fill intersect_id if still empty, record the
\* modality.
IndexRow(acc, row) ==
    IF row.split \notin DOMAIN acc.scenes \/ row.sid = "" THEN acc
    ELSE LET sc == acc.scenes[row.split]
             fresh == row.sid \notin DOMAIN sc
             s0 == IF fresh THEN [gid |-> Or(row.gid, None), mods |-> {}]
                   ELSE sc[row.sid]
             s1 == [gid |-> Or(s0.gid, Or(row.gid, None)),
                    mods |-> s0.mods \cup {row.mod}]
         IN [scenes |-> [acc.scenes EXCEPT ![row.split] = Put(sc, row.sid, s1)],
             keys |-> IF fresh
                      THEN [acc.keys EXCEPT ![row.split] = Append(@, row.sid)]
                      ELSE acc.keys]

RECURSIVE IndexRows(_, _)
IndexRows(acc, rows) ==
    IF rows = <<>> THEN acc ELSE IndexRows(IndexRow(acc, Head(rows)), Tail(rows))

\* V2XTrajAdapter._load_scenes_csv
LoadScenesCsv(rows) == IndexRows(V2XEmpty, rows)

\* V2XTrajAdapter._load_scenes_from_dirs
TrajLoadScenesFromDirs(rows) == IndexRows(V2XEmpty, rows)

IsTrajMod(m) == m \in {"ego", "infra", "vehicle"}

IsTrajRow(row) == IsTrajMod(row.mod)

IsTlRow(row) == row.mod = "traffic_light"

\* V2XSeqAdapter._load_scenes_from_dirs: trajectory clips make the scene
\* universe (first file per modality kept), traffic-light files attach to
\* indexed scenes only, and metadata is read from one sample clip.
SeqHasFile(rows, split, sid, mods) ==
    \E i \in 1..Len(rows) :
        rows[i].split = split /\ rows[i].sid = sid /\ rows[i].mod \in mods

SeqFirstFile(rows, split, sid, mods) ==
    LET hits == {i \in 1..Len(rows) :
                    rows[i].split = split /\ rows[i].sid = sid /\ rows[i].mod \in mods}
    IN rows[CHOOSE i \in hits : \A j \in hits : i <= j]

\* The sample clip metadata is read from: infra, else ego, else vehicle,
\* else the traffic-light file.
SeqSample(rows, split, sid) ==
    IF SeqHasFile(rows, split, sid, {"infra"})
        THEN SeqFirstFile(rows, split, sid, {"infra"})
    ELSE IF SeqHasFile(rows, split, sid, {"ego"})
        THEN SeqFirstFile(rows, split, sid, {"ego"})
    ELSE IF SeqHasFile(rows, split, sid, {"vehicle"})
        THEN SeqFirstFile(rows, split, sid, {"vehicle"})
    ELSE SeqFirstFile(rows, split, sid, {"traffic_light"})

BlankGid(rows) == [i \in 1..Len(rows) |-> [rows[i] EXCEPT !.gid = ""]]

SeqLoadScenesFromDirs(rows) ==
    LET traj == IndexRows(V2XEmpty, BlankGid(SelectSeq(rows, IsTrajRow)))
    IN [scenes |->
            [sp \in V2XSplits |->
                [sid \in DOMAIN traj.scenes[sp] |->
                    [gid |-> Or(SeqSample(rows, sp, sid).gid, None),
                     mods |-> traj.scenes[sp][sid].mods
                                \cup (IF SeqHasFile(rows, sp, sid, {"traffic_light"})
                                      THEN {"traffic_light"} ELSE {})]]],
        keys |-> traj.keys]

\* sorted(ids, key=self._scene_sort_key)
SortedIds(S) ==
    [i \in 1..Cardinality(S) |->
        CHOOSE x \in S : Cardinality({y \in S : KeyLessEq(y, x)}) = i]

\* V2XTrajAdapter._build_scene_indices: the global ordering and the
\* per-intersection orderings derived from it.
BuildSceneIndices(scenes) ==
    LET ids(sp) == SortedIds(DOMAIN scenes[sp])
        gids(sp) == {scenes[sp][sid].gid : sid \in DOMAIN scenes[sp]} \ {None, ""}
        InGroup(sp, g) == LET keep(sid) == scenes[sp][sid].gid = g
                          IN SelectSeq(ids(sp), keep)
    IN [sorted_ids |-> [sp \in DOMAIN scenes |-> ids(sp)],
        ids_by_group |-> [sp \in DOMAIN scenes |-> [g \in gids(sp) |-> InGroup(sp, g)]]]

----------------------------------------------------------------------------
(* The windowed families number their scenes themselves: refs is the       *)
(* sequence of scene references in the order they were discovered, and     *)
(* scene n gets the id str(n).                                             *)

AllSplit == "all"

NumberScenesFromTwo(refs) ==
    LET ids == [n \in 1..Len(refs) |-> StrOf[n + 1]]
        n_of(sid) == CHOOSE n \in 1..Len(refs) : StrOf[n + 1] = sid
        gids == {refs[n].gid : n \in 1..Len(refs)}
        in_group(g) == LET keep(sid) == refs[n_of(sid)].gid = g
                       IN SelectSeq(ids, keep)
    IN [scenes |-> (AllSplit :> [sid \in Range(ids) |-> refs[n_of(sid)]]),
        keys |-> (AllSplit :> ids),
        sorted_ids |-> (AllSplit :> ids),
        ids_by_group |-> (AllSplit :> [g \in gids |-> in_group(g)])]

NumberScenes(refs) ==
    LET ids == [n \in 1..Len(refs) |-> StrOf[n]]
        n_of(sid) == CHOOSE n \in 1..Len(refs) : StrOf[n] = sid
        gids == {refs[n].gid : n \in 1..Len(refs)}
        in_group(g) == LET keep(sid) == refs[n_of(sid)].gid = g
                       IN SelectSeq(ids, keep)
    IN [scenes |-> (AllSplit :> [sid \in Range(ids) |-> refs[n_of(sid)]]),
        keys |-> (AllSplit :> ids),
        sorted_ids |-> (AllSplit :> ids),
        ids_by_group |-> (AllSplit :> [g \in gids |-> in_group(g)])]

----------------------------------------------------------------------------
(* inD: fixed-duration windows over each recording.  A recording is        *)
(* [loc, max_frame, frame_rate]; the sequence is in recording-number order.*)

InD_DEFAULT_WINDOW_S == 60

IndRecordings ==
    [loc : {"1", "2"}, max_frame : {-1, 1499, 1500}, frame_rate : {25}]

\* InDAdapter.__init__: window_s clamped to [10, 600].
IndWindowS(window_s) ==
    Max(10, Min(600, IF window_s = None THEN InD_DEFAULT_WINDOW_S ELSE window_s))

\* InDAdapter._discover_recordings: a recording without frames is dropped.
DiscoverRecordings(recs) ==
    LET keep(r) == r.max_frame >= 0 IN SelectSeq(recs, keep)

\* InDAdapter._read_tracks_meta: the tracksMeta table of a recording.  In
\* the model it lists one track, present from frame 0 to max_frame.
IndTracksMeta(rec) ==
    <<[track_id |-> 1, initial_frame |-> 0, final_frame |-> rec.max_frame]>>

\* The while loop of InDAdapter._build_index over one recording.  A scene
\* reference carries what load_scene_bundle reads from its recording.
RECURSIVE IndWindows(_, _, _, _, _)
IndWindows(rec, rec_i, window_frames, start, wi) ==
    IF start > rec.max_frame THEN <<>>
    ELSE LET end == Min(rec.max_frame, start + window_frames - 1)
         IN <<[gid |-> rec.loc, mods |-> {"infra"}, rec |-> rec_i, window_i |-> wi,
               frame_start |-> start, frame_end |-> end,
               frame_rate |-> rec.frame_rate,
               tracks_meta_list |-> IndTracksMeta(rec)]>>
            \o IndWindows(rec, rec_i, window_frames, end + 1, wi + 1)

RECURSIVE IndRefs(_, _, _)
IndRefs(recs, i, window_s) ==
    IF i > Len(recs) THEN <<>>
    ELSE IndWindows(recs[i], i, Max(1, window_s * recs[i].frame_rate), 0, 0)
            \o IndRefs(recs, i + 1, window_s)

\* InDAdapter._build_index
IndBuildIndex(recs, window_s) ==
    NumberScenes(IndRefs(DiscoverRecordings(recs), 1, IndWindowS(window_s)))

----------------------------------------------------------------------------
(* SinD: one scene per scenario folder.  A city block is [city, scen] with *)
(* scen the sequence of its scenario folders, each [tl] (whether a         *)
(* traffic-light file was found); blocks come sorted by city.              *)

SindScenarios == [tl : BOOLEAN]

SindBlocks == [city : {"c1", "c2"}, scen : SeqUpTo(SindScenarios, 2) \ {<<>>}]

RECURSIVE SindRefs(_, _)
SindRefs(blocks, i) ==
    IF i > Len(blocks) THEN <<>>
    ELSE [k \in 1..Len(blocks[i].scen) |->
            [gid |-> blocks[i].city,
             mods |-> {"infra"} \cup (IF blocks[i].scen[k].tl THEN {"traffic_light"} ELSE {}),
             tl |-> blocks[i].scen[k].tl, scenario |-> k]]
         \o SindRefs(blocks, i + 1)

\* SinDAdapter._build_index
SindBuildIndex(blocks) == NumberScenes(SindRefs(blocks, 1))

----------------------------------------------------------------------------
(* CPM object logs: gap-aware time windows per sensor.  A log row is       *)
(* [rsu, ts]: the value of its sensor column ("" when empty or absent) and *)
(* the text of its generationTime_ms field.                                *)

Cpm_DEFAULT_WINDOW_S == 300

Cpm_DEFAULT_GAP_S == 120

Cpm_DEFAULT_FRAME_BIN_MS == 100

\* CpmObjectsAdapter._as_int_ms on the timestamp texts of the model; a text
\* outside the table does not parse.
AsIntMs == [t \in {"0", "50", "120200"} |->
                IF t = "0" THEN 0 ELSE IF t = "50" THEN 50 ELSE 120200]

CpmRows == [rsu : {"", "A"}, ts : {"0", "50", "120200", "bad"}]

\* CpmObjectsAdapter._bucket_ts_ms
BucketTsMs(ts_ms, frame_bin_ms) ==
    IF frame_bin_ms <= 1 THEN ts_ms ELSE (ts_ms \div frame_bin_ms) * frame_bin_ms

\* re.sub(r"[^a-zA-Z0-9_-]+", "_", rsu_val) on the RSU values of the model.
RsuNorm == [v \in {"A", "A.1", "A 1"} |-> IF v = "A" THEN "A" ELSE "A_1"]

\* The sensor id of a row: the file's base id, suffixed by the normalised
\* RSU value.
CpmSensorOfRow(row) ==
    IF row.rsu = "" THEN "base"
    ELSE IF RsuNorm[row.rsu] = "A" THEN "base__A" ELSE "base__A_1"

CpmParsedRows(rows) ==
    {i \in 1..Len(rows) : rows[i].ts \in DOMAIN AsIntMs}

\* per_sensor_ts[sensor]: bucketed timestamp -> number of rows.
CpmTsCounts(rows, sensor, bin) ==
    LET mine == {i \in CpmParsedRows(rows) : CpmSensorOfRow(rows[i]) = sensor}
        b(i) == BucketTsMs(AsIntMs[rows[i].ts], bin)
    IN [t \in {b(i) : i \in mine} |-> Cardinality({i \in mine : b(i) = t})]

\* sorted(ts_map.keys())
SortedInts(S) ==
    [i \in 1..Cardinality(S) |->
        CHOOSE x \in S : Cardinality({y \in S : y <= x}) = i]

\* The windowing pass of _index_one_csv over one sensor's sorted timestamps:
\* cur is the open window, prev the previous timestamp.
RECURSIVE CpmWindowsFrom(_, _, _, _, _, _, _)
CpmWindowsFrom(ts_sorted, i, counts, cur, prev, gap_ms, window_ms) ==
    IF i > Len(ts_sorted) THEN <<cur>>
    ELSE LET g == ts_sorted[i]
             gap == g - prev
             dur == g - cur.first_ts_ms
         IN IF gap > gap_ms \/ dur >= window_ms
            THEN <<cur>> \o CpmWindowsFrom(ts_sorted, i + 1, counts,
                                [bucket |-> cur.bucket + 1, start_ms |-> g, end_ms |-> g,
                                 first_ts_ms |-> g, last_ts_ms |-> g,
                                 rows |-> counts[g], frames |-> 1],
                                g, gap_ms, window_ms)
            ELSE CpmWindowsFrom(ts_sorted, i + 1, counts,
                                [cur EXCEPT !.end_ms = g, !.last_ts_ms = g,
                                            !.rows = @ + counts[g], !.frames = @ + 1],
                                g, gap_ms, window_ms)

CpmWindows(counts, gap_ms, window_ms) ==
    LET ts_sorted == SortedInts(DOMAIN counts)
    IN IF ts_sorted = <<>> THEN <<>>
       ELSE CpmWindowsFrom(ts_sorted, 2, counts,
                [bucket |-> 0, start_ms |-> ts_sorted[1], end_ms |-> ts_sorted[1],
                 first_ts_ms |-> ts_sorted[1], last_ts_ms |-> ts_sorted[1],
                 rows |-> counts[ts_sorted[1]], frames |-> 1],
                ts_sorted[1], gap_ms, window_ms)

\* CpmObjectsAdapter._index_one_csv: sensor id -> its windows.
CpmIndexOneCsv(rows, gap_ms, window_ms, bin) ==
    LET sensors == {CpmSensorOfRow(rows[i]) : i \in CpmParsedRows(rows)}
    IN [sn \in sensors |-> CpmWindows(CpmTsCounts(rows, sn, bin), gap_ms, window_ms)]

\* CpmObjectsAdapter._build_index: flatten into the global ordering by
\* (sensor id, first timestamp, window number) and number the scenes.
CpmFlatLessEq(a, b) ==
    \/ StrLess(a[1], b[1])
    \/ a[1] = b[1] /\ a[2] < b[2]
    \/ a[1] = b[1] /\ a[2] = b[2] /\ a[3] <= b[3]

SortedFlat(S) ==
    [i \in 1..Cardinality(S) |->
        CHOOSE x \in S : Cardinality({y \in S : CpmFlatLessEq(y, x)}) = i]

CpmBuildIndex(rows, gap_s, window_s) ==
    LET gap_ms == Max(0, IF gap_s = None THEN Cpm_DEFAULT_GAP_S ELSE gap_s) * 1000
        window_ms == Max(1, IF window_s = None THEN Cpm_DEFAULT_WINDOW_S ELSE window_s) * 1000
        sensors == CpmIndexOneCsv(rows, gap_ms, window_ms, Cpm_DEFAULT_FRAME_BIN_MS)
        flat == SortedFlat(UNION {{<<sn, sensors[sn][wi].first_ts_ms, wi>> :
                                      wi \in 1..Len(sensors[sn])} : sn \in DOMAIN sensors})
        refs == [n \in 1..Len(flat) |->
                    [gid |-> flat[n][1], mods |-> {"infra"}, window_i |-> flat[n][3] - 1,
                     window |-> sensors[flat[n][1]][flat[n][3]]]]
    IN NumberScenes(refs)

----------------------------------------------------------------------------
(* Adapter construction.  What the constructor finds on disk is its input: *)
(* [io_error, source, data], io_error when reading the dataset raises,     *)
(* source "csv" (a precomputed scene table) or "dirs", and data the rows,  *)
(* recordings, city blocks or log rows of the family.                      *)

Families ==
    {"v2x-traj", "v2x-seq", "ind", "sind", "cpm-objects", "generic", " ind"}

\* apps/server/domain.py: SUPPORTED_DATASET_FAMILIES
SUPPORTED_DATASET_FAMILIES == {"v2x-traj", "v2x-seq", "ind", "sind", "cpm-objects"}

\* str.strip on the family names of the model.
Strip(f) == IF f = " ind" THEN "ind" ELSE f

EveryFamilySupported(family) == TRUE

\* DatasetStore._is_supported_family
IsSupportedFamily(family) == Strip(family) \in SUPPORTED_DATASET_FAMILIES

IoError == [io_error |-> TRUE, source |-> "dirs", data |-> <<>>]

DataOf(family, n) ==
    CASE family \in {"v2x-traj", "v2x-seq"} -> SeqUpTo(V2XRows, n)
      [] Strip(family) = "ind" -> SeqUpTo(IndRecordings, Min(n, MaxGroups))
      [] family = "sind" ->
            {b \in SeqUpTo(SindBlocks, Min(n, MaxGroups)) :
                \A i, j \in 1..Len(b) : i < j => b[i].city = "c1" /\ b[j].city = "c2"}
      [] family = "cpm-objects" -> SeqUpTo(CpmRows, n)
      [] OTHER -> {<<>>}

SourcesOf(family) ==
    IF family \in {"v2x-traj", "v2x-seq"} THEN {"csv", "dirs"} ELSE {"dirs"}

\* The inputs with at most n rows / files / groups.
BuildInputs(family, n) ==
    {IoError} \cup
    {[io_error |-> FALSE, source |-> src, data |-> d] :
        src \in SourcesOf(family), d \in DataOf(family, n)}

Failed(err) == [ok |-> FALSE, err |-> err, adapter |-> None]

\* A constructed adapter: the scene index with its orderings; inst, the
\* identity of the object; and the locator data and caches behind
\* load_scene_bundle: the parsed-CSV cache of the V2X families (least
\* recently used first), the per-scene file map, the traffic-light path
\* cache and the traffic-light roots of V2X-Seq, and the per-recording
\* track offsets of inD (absent until first used).
Ready(family, ix, ord) ==
    [ok |-> TRUE, err |-> None,
     adapter |-> [family |-> family, inst |-> 0, scenes |-> ix.scenes, keys |-> ix.keys,
                  sorted_ids |-> ord.sorted_ids, ids_by_group |-> ord.ids_by_group,
                  csv_cache |-> <<>>,
                  scene_files |-> [sp \in DOMAIN ix.scenes |-> EmptyDict],
                  tl_scene_path_cache |-> EmptyDict,
                  tl_roots |-> FALSE,
                  offsets_by_track |-> EmptyDict]]

NoScenes(ix) == \A sp \in DOMAIN ix.scenes : DOMAIN ix.scenes[sp] = {}

\* V2XTrajAdapter.__init__
V2XTrajInit(inp) ==
    LET ix == IF inp.source = "csv" THEN LoadScenesCsv(inp.data)
              ELSE TrajLoadScenesFromDirs(inp.data)
    IN IF inp.io_error THEN Failed("io_error")
       ELSE IF NoScenes(ix) THEN Failed("v2x-traj adapter could not discover any scenes")
       ELSE Ready("v2x-traj", ix, BuildSceneIndices(ix.scenes))

\* V2XSeqAdapter.__init__ (V2XTrajAdapter.__init__ with the V2X-Seq folder scan)
V2XSeqInit(inp) ==
    LET ix == IF inp.source = "csv" THEN LoadScenesCsv(inp.data)
              ELSE SeqLoadScenesFromDirs(inp.data)
        base == Ready("v2x-seq", ix, BuildSceneIndices(ix.scenes))
        keys == UNION {{<<sp, sid>> : sid \in DOMAIN ix.scenes[sp]} : sp \in V2XSplits}
    IN IF inp.io_error THEN Failed("io_error")
       ELSE IF NoScenes(ix) THEN Failed("v2x-traj adapter could not discover any scenes")
       ELSE IF inp.source = "csv" THEN base
       ELSE [base EXCEPT
                !.adapter.scene_files =
                    [sp \in V2XSplits |->
                        [sid \in DOMAIN ix.scenes[sp] |-> ix.scenes[sp][sid].mods]],
                !.adapter.tl_scene_path_cache =
                    [k \in keys |-> "traffic_light" \in ix.scenes[k[1]][k[2]].mods],
                !.adapter.tl_roots =
                    \E i \in 1..Len(inp.data) :
                        inp.data[i].mod = "traffic_light" /\ inp.data[i].split \in V2XSplits]

\* InDAdapter.__init__
InDInit(inp, window_s) ==
    LET ix == IndBuildIndex(inp.data, window_s)
    IN IF inp.io_error THEN Failed("io_error")
       ELSE IF NoScenes(ix) THEN Failed("inD adapter could not discover any scenes")
       ELSE Ready("ind", ix, ix)

\* SinDAdapter.__init__
SinDInit(inp) ==
    LET ix == SindBuildIndex(inp.data)
    IN IF inp.io_error THEN Failed("io_error")
       ELSE IF NoScenes(ix) THEN Failed("SinD adapter could not discover any scenes")
       ELSE Ready("sind", ix, ix)

\* CpmObjectsAdapter.__init__
CpmObjectsInit(inp, window_s, gap_s) ==
    LET ix == CpmBuildIndex(inp.data, gap_s, window_s)
    IN IF inp.io_error THEN Failed("io_error")
       ELSE Ready("cpm-objects", ix, ix)

\* DatasetStore._build_adapter: dispatch on the family as written.
BuildAdapter(family, inp) ==
    CASE family = "v2x-traj" -> V2XTrajInit(inp)
      [] family = "v2x-seq" -> V2XSeqInit(inp)
      [] family = "ind" -> InDInit(inp, None)
      [] family = "sind" -> SinDInit(inp)
      [] family = "cpm-objects" -> CpmObjectsInit(inp, None, None)
      [] OTHER -> Failed("unsupported dataset family")

----------------------------------------------------------------------------
(* DatasetStore.get_adapter, step by step for each request thread:         *)
(*   "idle" -> lookup of the spec (no lock)          -> "lock" or KeyError *)
(*   "lock" -> acquire the lock, inspect the caches  -> "build" or return  *)
(*   "build" -> _build_adapter, store, release       -> return             *)

Threads == 1..NumThreads

DatasetIds == {"a", "b", "zz"}

\* What a call gave: the exception or the adapter object (inst), and hit,
\* whether it was served from the adapter / error cache.
NoRet == [d |-> "", kind |-> "none", msg |-> <<"", "">>, inst |-> 0, hit |-> FALSE]

KeyErrorRet(d) ==
    [d |-> d, kind |-> "KeyError", msg |-> <<d, "dataset not found or unsupported">>,
     inst |-> 0, hit |-> FALSE]

RuntimeErrorRet(d, msg, hit) ==
    [d |-> d, kind |-> "RuntimeError", msg |-> msg, inst |-> 0, hit |-> hit]

AdapterRet(d, adapter, hit) ==
    [d |-> d, kind |-> "adapter", msg |-> <<"", "">>, inst |-> adapter.inst, hit |-> hit]

\* The value or exception itself, whichever way it was produced.
Outcome(r) == [r EXCEPT !.hit = FALSE]

\* f"failed to initialize dataset adapter '{dataset_id}': {e}"
InitErrorMsg(d, err) == <<d, err>>

LockIgnored == TRUE

\* `with self._adapter_lock` can be entered.
LockFree == adapter_lock = 0

ErrorNotConsulted(d) == FALSE

\* `cached_error is not None`
CachedError(d) == d \in DOMAIN adapter_errors

\* Lines 4779-4781: the lookup, outside the lock.
Call(t, d) ==
    /\ pc[t] = "idle"
    /\ IF d \notin DOMAIN specs \/ ~IsSupportedFamily(specs[d])
       THEN /\ ret' = KeyErrorRet(d)
            /\ UNCHANGED <<pc, req>>
       ELSE /\ pc' = [pc EXCEPT ![t] = "lock"]
            /\ req' = [req EXCEPT ![t] = d]
            /\ UNCHANGED ret
    /\ UNCHANGED <<specs, adapters, adapter_errors, adapter_lock, builds, returned, resp,
                   on_disk>>

\* Lines 4783-4791: take the lock and look at the two caches.
Enter(t) ==
    LET d == req[t] IN
    /\ pc[t] = "lock"
    /\ LockFree
    /\ IF d \in DOMAIN adapters
       THEN /\ ret' = AdapterRet(d, adapters[d], TRUE)
            /\ returned' = [returned EXCEPT ![d] = @ \cup {AdapterRet(d, adapters[d], TRUE)}]
            /\ pc' = [pc EXCEPT ![t] = "idle"]
            /\ UNCHANGED <<adapter_lock, builds>>
       ELSE IF CachedError(d)
       THEN /\ ret' = RuntimeErrorRet(d, adapter_errors[d], TRUE)
            /\ returned' = [returned EXCEPT ![d] = @ \cup {RuntimeErrorRet(d, adapter_errors[d], TRUE)}]
            /\ pc' = [pc EXCEPT ![t] = "idle"]
            /\ UNCHANGED <<adapter_lock, builds>>
       ELSE /\ adapter_lock' = t
            /\ pc' = [pc EXCEPT ![t] = "build"]
            /\ builds' = [builds EXCEPT ![d] = @ + 1]
            /\ UNCHANGED <<ret, returned>>
    /\ UNCHANGED <<specs, adapters, adapter_errors, req, resp, on_disk>>

\* Lines 4793-4802: build, record the adapter or the error, release the lock.
\* inp is what the constructor finds on disk.
Build(t, inp) ==
    LET d == req[t]
        out == BuildAdapter(specs[d], inp)
        adapter == [out.adapter EXCEPT !.inst = builds[d]]
        msg == InitErrorMsg(d, out.err)
    IN
    /\ pc[t] = "build"
    /\ IF out.ok
       THEN /\ adapters' = Put(adapters, d, adapter)
            /\ ret' = AdapterRet(d, adapter, FALSE)
            /\ returned' = [returned EXCEPT ![d] = @ \cup {AdapterRet(d, adapter, FALSE)}]
            /\ UNCHANGED adapter_errors
       ELSE /\ adapter_errors' = Put(adapter_errors, d, msg)
            /\ ret' = RuntimeErrorRet(d, msg, FALSE)
            /\ returned' = [returned EXCEPT ![d] = @ \cup {RuntimeErrorRet(d, msg, FALSE)}]
            /\ UNCHANGED adapters
    /\ adapter_lock' = 0
    /\ pc' = [pc EXCEPT ![t] = "idle"]
    /\ UNCHANGED <<specs, req, builds, resp, on_disk>>

NoResp == [op |-> "none"]

\* DatasetStore.__init__ with the registry already loaded, over the scene
\* files fs.
InitStoreOver(registry, fs) ==
    /\ specs = registry
    /\ on_disk = fs
    /\ adapters = EmptyDict
    /\ adapter_errors = EmptyDict
    /\ adapter_lock = 0
    /\ pc = [t \in Threads |-> "idle"]
    /\ req = [t \in Threads |-> ""]
    /\ ret = NoRet
    /\ builds = [d \in DatasetIds |-> 0]
    /\ returned = [d \in DatasetIds |-> {}]
    /\ resp = NoResp

\* The store over files that may change between any two requests: none is
\* kept, and each load_scene_bundle draws the files it meets.
InitStoreWith(registry) == InitStoreOver(registry, EmptyDict)

\* The concurrent store: a registry of two datasets ("a" of any family, "b" a
\* SinD dataset) and the request threads inside get_adapter.  The store does
\* not look into an adapter, so the constructor meets one of three disks: an
\* unreadable one, one with nothing on it, one with a single scene.
OneScene(family) ==
    CASE family \in {"v2x-traj", "v2x-seq"} ->
            [split |-> "train", sid |-> "2", gid |-> "g1", mod |-> "ego"]
      [] Strip(family) = "ind" -> [loc |-> "1", max_frame |-> 1499, frame_rate |-> 25]
      [] family = "sind" -> [city |-> "c1", scen |-> <<[tl |-> TRUE]>>]
      [] OTHER -> [rsu |-> "", ts |-> "0"]

StoreInputs(family) ==
    {inp \in BuildInputs(family, 1) :
        inp.source = "dirs" /\ (inp.data = <<>> \/ inp.data = <<OneScene(family)>>)}

InitStore == \E fa \in Families : InitStoreWith(("a" :> fa) @@ ("b" :> "sind"))

StoreBuild(t) ==
    /\ pc[t] = "build"
    /\ \E inp \in StoreInputs(specs[req[t]]) : Build(t, inp)

NextStore ==
    \E t \in Threads :
        \/ \E d \in DatasetIds : Call(t, d)
        \/ Enter(t)
        \/ StoreBuild(t)

SpecStore == InitStore /\ [][NextStore]_vars

----------------------------------------------------------------------------
(* The adapter query interface.  An adapter a is the record Ready made.    *)

IsV2X(a) == a.family \in {"v2x-traj", "v2x-seq"}

\* The split a call works on: the windowed families treat any split as "all".
EffSplit(a, split) == IF IsV2X(a) THEN split ELSE AllSplit

ScenesOfRequestedSplit(a, split) == Get(a.scenes, split, EmptyDict)

\* self._scene_index.get(split, {}) / self._scenes
ScenesOf(a, split) == Get(a.scenes, EffSplit(a, split), EmptyDict)

\* An absent position (None in the source).
NoIndex == -1

\* _scene_included_in_list: V2XTrajAdapter lists every scene, V2XSeqAdapter
\* only those with a trajectory modality (or, on request, with traffic
\* lights).
SceneIncludedInList(a, s, include_tl_only) ==
    IF a.family = "v2x-seq"
    THEN IF include_tl_only THEN "traffic_light" \in s.mods
         ELSE s.mods \cap {"ego", "infra", "vehicle"} # {}
    ELSE TRUE

ListedIdsByCache(a, split, intersect_id, include_tl_only) ==
    LET ids == SortedIds(DOMAIN ScenesOf(a, split))
    IN IF a.csv_cache = <<>> THEN ids ELSE [i \in 1..Len(ids) |-> ids[Len(ids) + 1 - i]]

\* The scene ids list_scenes pages through, in order.
ListedIds(a, split, intersect_id, include_tl_only) ==
    LET scenes == ScenesOf(a, split)
        sp == EffSplit(a, split)
        hasTl(sid) == scenes[sid].tl
    IN IF IsV2X(a)
       THEN SortedIds({sid \in DOMAIN scenes :
                /\ Falsy(intersect_id) \/ scenes[sid].gid = intersect_id
                /\ SceneIncludedInList(a, scenes[sid], include_tl_only)})
       ELSE LET ids == IF ~Falsy(intersect_id)
                       THEN Get(a.ids_by_group[sp], intersect_id, <<>>)
                       ELSE a.sorted_ids[sp]
            IN IF a.family = "sind" /\ include_tl_only
               THEN SelectSeq(ids, hasTl) ELSE ids

\* availability: scenes per modality, over the listed scenes (V2X), or the
\* fixed infra count of the windowed families; SinD counts the traffic-light
\* files of the page.
Availability(a, split, ids, page) ==
    LET scenes == ScenesOf(a, split)
        n(mod, l) == Cardinality({i \in 1..Len(l) : mod \in scenes[l[i]].mods})
    IN [scene_count |-> Len(ids),
        by_modality |->
            IF IsV2X(a)
            THEN [mod \in UNION {scenes[ids[i]].mods : i \in 1..Len(ids)} |-> n(mod, ids)]
            ELSE IF a.family = "sind"
            THEN ("infra" :> Len(ids)) @@
                 ("traffic_light" :> IF page # <<>> THEN n("traffic_light", page)
                                     ELSE n("traffic_light", ids))
            ELSE ("infra" :> Len(ids))]

\* list_scenes
ListScenes(a, split, intersect_id, limit, offset, include_tl_only) ==
    LET ids == ListedIds(a, split, intersect_id, include_tl_only)
        page == Slice(ids, offset, limit)
        scenes == ScenesOf(a, split)
    IN [op |-> "list_scenes", total |-> Len(ids), limit |-> limit, offset |-> offset,
        items |-> [i \in 1..Len(page) |->
                      [scene_id |-> page[i], split |-> EffSplit(a, split),
                       intersect_id |-> scenes[page[i]].gid]],
        availability |-> Availability(a, split, ids, page),
        include_tl_only |-> include_tl_only]

\* locate_scene
LocateScene(a, split, scene_id) ==
    LET sp == EffSplit(a, split)
        scenes == ScenesOf(a, split)
        iid == scenes[scene_id].gid
        in_group == Get(Get(a.ids_by_group, sp, EmptyDict), iid, <<>>)
        grouped == ~IsV2X(a) \/ ~Falsy(iid)
    IN IF scene_id \notin DOMAIN scenes
       THEN [op |-> "locate_scene", split |-> sp, scene_id |-> scene_id, found |-> FALSE,
             intersect_id |-> None, index_all |-> NoIndex, total_all |-> NoIndex,
             index_in_intersection |-> NoIndex, total_in_intersection |-> NoIndex]
       ELSE [op |-> "locate_scene", split |-> sp, scene_id |-> scene_id, found |-> TRUE,
             intersect_id |-> iid,
             index_all |-> Get(Enumerate(Get(a.sorted_ids, sp, <<>>)), scene_id, NoIndex),
             total_all |-> Len(Get(a.sorted_ids, sp, <<>>)),
             index_in_intersection |->
                IF grouped THEN Get(Enumerate(in_group), scene_id, NoIndex) ELSE NoIndex,
             total_in_intersection |-> IF grouped THEN Len(in_group) ELSE NoIndex]

\* The intersections of a split with their scene counts, in the order the
\* family returns them.
GroupCounts(a, split) ==
    LET sp == EffSplit(a, split)
        scenes == ScenesOf(a, split)
        keys == Get(a.keys, sp, <<>>)
        gids == {scenes[sid].gid : sid \in DOMAIN scenes} \ {None, ""}
        cnt(g) == Cardinality({sid \in DOMAIN scenes : scenes[sid].gid = g})
        first(g) == CHOOSE i \in 1..Len(keys) :
                        /\ scenes[keys[i]].gid = g
                        /\ \A j \in 1..(i - 1) : scenes[keys[j]].gid # g
        \* V2X: Counter.most_common(), count descending, ties in insertion order
        v2xBefore(g, h) == cnt(g) > cnt(h) \/ (cnt(g) = cnt(h) /\ first(g) <= first(h))
        \* CPM: LiDAR streams first, then by count descending, then label
        rank(g) == IF g = "base__A" THEN 0 ELSE 2
        cpmBefore(g, h) == \/ rank(g) < rank(h)
                           \/ rank(g) = rank(h) /\ cnt(g) > cnt(h)
                           \/ rank(g) = rank(h) /\ cnt(g) = cnt(h) /\ (g = h \/ StrLess(g, h))
        \* inD: by location number; SinD: by city label
        strBefore(g, h) == g = h \/ StrLess(g, h)
        before(g, h) == IF IsV2X(a) THEN v2xBefore(g, h)
                        ELSE IF a.family = "cpm-objects" THEN cpmBefore(g, h)
                        ELSE strBefore(g, h)
    IN [i \in 1..Cardinality(gids) |->
            LET g == CHOOSE x \in gids : Cardinality({y \in gids : before(y, x)}) = i
            IN [intersect_id |-> g, count |-> cnt(g)]]

\* list_intersections
ListIntersections(a, split) ==
    [op |-> "list_intersections", split |-> EffSplit(a, split), items |-> GroupCounts(a, split)]

----------------------------------------------------------------------------
(* Scene files.  What load_scene_bundle finds on disk is its input: a file *)
(* is [state, rows], "missing", "unreadable" (it exists and opening it     *)
(* raises OSError) or "ok" with its data rows; a map is "ok", "missing" or *)
(* "broken" (parsing it raises).  Coordinates are not part of a row, so    *)
(* the extent of a scene and the warnings computed from it are left out.   *)

Missing == [state |-> "missing", rows |-> <<>>]

Unreadable == [state |-> "unreadable", rows |-> <<>>]

File(rows) == [state |-> "ok", rows |-> rows]

\* Path.exists()
Exists(f) == f.state # "missing"

\* by_key[key].append(rec) over a defaultdict(list), in file order: recs[i]
\* goes under the key in keys[i]; a row without key (keys[i] = {}) is
\* skipped.
GroupByKey(recs, keys) ==
    [k \in UNION {keys[i] : i \in 1..Len(keys)} |->
        LET idx == {i \in 1..Len(keys) : keys[i] = {k}}
        IN [j \in 1..Cardinality(idx) |->
                recs[CHOOSE i \in idx : Cardinality({h \in idx : h <= i}) = j]]]

\* The warning s, if c holds.
Warn(c, s) == IF c THEN <<s>> ELSE <<>>

\* The response of load_scene_bundle: the exception raised ("none" when a
\* bundle is returned) and the bundle.  ticks are the sorted keys the
\* timestamps were computed from, loaded the per-modality tables the frames
\* were assembled from.  Timestamps are in milliseconds.
Bundle(split, scene_id, ticks, timestamps, frames, loaded, warnings) ==
    [op |-> "load_scene_bundle", dataset_id |-> "", split |-> split,
     scene_id |-> scene_id, raised |-> "none", ticks |-> ticks,
     timestamps |-> timestamps, frames |-> frames, loaded |-> loaded,
     warnings |-> warnings]

Raise(kind, split, scene_id) ==
    [op |-> "load_scene_bundle", dataset_id |-> "", split |-> split,
     scene_id |-> scene_id, raised |-> kind, ticks |-> <<>>,
     timestamps |-> <<>>, frames |-> <<>>, loaded |-> EmptyDict,
     warnings |-> <<>>]

EgoTicksOnly(loaded) ==
    IF "ego" \in DOMAIN loaded THEN DOMAIN loaded["ego"]
    ELSE IF "infra" \in DOMAIN loaded THEN DOMAIN loaded["infra"] ELSE {}

\* set(ego_by_ts.keys()) | set(infra_by_ts.keys()) | ...
UnionTicks(loaded) == UNION {DOMAIN loaded[m] : m \in DOMAIN loaded}

\* One frame per tick, in ascending order: each modality's records at the
\* tick, by_ts.get(k, []).
Frames(loaded, ticks) ==
    [i \in 1..Len(ticks) |-> [m \in DOMAIN loaded |-> Get(loaded[m], ticks[i], <<>>)]]

----------------------------------------------------------------------------
(* _LRUCache: a sequence of [key, val], least recently used first.         *)

LruHas(c, key) == \E i \in 1..Len(c) : c[i].key = key

LruValOfOldest(c, key) == c[1].val

LruVal(c, key) == c[CHOOSE i \in 1..Len(c) : c[i].key = key].val

\* _LRUCache.get on a hit: move_to_end.
LruGet(c, key) ==
    LET other(e) == e.key # key
    IN Append(SelectSeq(c, other), [key |-> key, val |-> LruVal(c, key)])

\* _LRUCache.set: store, move_to_end, evict from the front while over
\* capacity.
LruSet(c, key, val, max_items) ==
    LET other(e) == e.key # key
        d == Append(SelectSeq(c, other), [key |-> key, val |-> val])
    IN IF Len(d) > max_items THEN SubSeq(d, Len(d) - max_items + 1, Len(d)) ELSE d

----------------------------------------------------------------------------
(* V2X-Traj / V2X-Seq: load_scene_bundle.  A row of a scene CSV is         *)
(* [timestamp, intersect_id], its timestamp text and its intersection.     *)

\* Decimal(s) of the timestamp texts of the model, in hundredths of a
\* second; any other text raises InvalidOperation.
DecimalOf ==
    [s \in {"0.04", "0.05", "0.14", "-0.05"} |->
        CASE s = "0.04" -> 4 [] s = "0.05" -> 5 [] s = "0.14" -> 14 [] OTHER -> -5]

\* (Decimal(s) * 10).quantize(Decimal("1"), rounding=ROUND_HALF_UP): ties
\* go away from zero.
QuantizeHalfUp(c) == IF c >= 0 THEN (c + 5) \div 10 ELSE -((5 - c) \div 10)

\* parse_ts_100ms: the 100 ms tick of a timestamp text, as {tick}, or {}
\* for None.
ParseTs100ms(ts) ==
    IF ts \in DOMAIN DecimalOf THEN {QuantizeHalfUp(DecimalOf[ts])} ELSE {}

\* ts_100ms_to_float: float(tick) / 10.0 seconds.
Ts100msToFloat(k) == k * 100

\* parse_intersect_to_map_id: the digits after '#'.
ParseIntersectToMapId(intersect_id) == IF intersect_id = "y#4" THEN {4} ELSE {}

\* V2XTrajAdapter._load_traj_csv on an existing or missing file: the rows
\* by tick, and the first intersect_id met.
LoadTrajCsv(f) ==
    LET keys == [i \in 1..Len(f.rows) |-> ParseTs100ms(f.rows[i].timestamp)]
        named == {i \in 1..Len(f.rows) : keys[i] # {} /\ ~Falsy(f.rows[i].intersect_id)}
    IN [by_ts |-> GroupByKey(f.rows, keys),
        intersect_id |-> IF named = {} THEN None
                         ELSE f.rows[CHOOSE i \in named : \A j \in named : i <= j].intersect_id]

\* V2XTrajAdapter._load_traffic_light_csv: the same scan over the
\* traffic-light columns.
LoadTrafficLightCsv(f) == LoadTrajCsv(f)

V2XModalities == <<"ego", "infra", "vehicle", "traffic_light">>

\* V2XTrajAdapter._scene_file: the path of a modality's scene CSV, a fixed
\* place under the dataset root.
TrajSceneFile(modality, split, scene_id) == <<"data", modality, split, scene_id>>

\* The file at a path: disk gives the scene's file per modality; nothing
\* exists under the __missing__ placeholder.
FileAt(path, disk) == IF path[1] = "data" THEN disk[path[2]] ELSE Missing

\* V2XTrajAdapter._load_csv_cached for one modality, inside a bundle load:
\* st is [cache, raised, vals, hits], the cache so far, the exception raised
\* so far, the tables loaded so far and how many of them the cache served.
LoadCsvCached(st, kind, modality, path, disk) ==
    LET key == <<kind, path>>
        f == FileAt(path, disk)
        val == IF kind = "traj" THEN LoadTrajCsv(f) ELSE LoadTrafficLightCsv(f)
    IN IF st.raised # "none" THEN st
       ELSE IF LruHas(st.cache, key)
       THEN [st EXCEPT !.cache = LruGet(st.cache, key),
                       !.vals = Put(@, modality, LruVal(st.cache, key)),
                       !.hits = @ + 1]
       ELSE IF f.state = "unreadable" THEN [st EXCEPT !.raised = "OSError"]
       ELSE [st EXCEPT !.cache = LruSet(st.cache, key, val, CsvCacheMaxItems),
                       !.vals = Put(@, modality, val)]

\* Lines 962-965: the four modality files, in order.
RECURSIVE LoadModalities(_, _, _, _)
LoadModalities(st, i, paths, disk) ==
    IF i > Len(V2XModalities) THEN st
    ELSE LoadModalities(
            LoadCsvCached(st, IF V2XModalities[i] = "traffic_light" THEN "traffic_light"
                              ELSE "traj",
                          V2XModalities[i], paths[V2XModalities[i]], disk),
            i + 1, paths, disk)

\* The warnings of a V2X bundle, in the order they are appended; head are
\* the family's warnings on missing trajectory files and ref_order the
\* modalities the traffic-light offsets are measured against.
V2XWarnings(head, vals, paths, disk, ref_order) ==
    LET by(m) == vals[m].by_ts
        intersect_id == Or(vals["ego"].intersect_id, Or(vals["infra"].intersect_id,
                            Or(vals["vehicle"].intersect_id,
                               vals["traffic_light"].intersect_id)))
        named == {vals[m].intersect_id : m \in DOMAIN vals} \ {None, ""}
        refs == {i \in 1..Len(ref_order) : DOMAIN by(ref_order[i]) # {}}
        ref == by(ref_order[CHOOSE i \in refs : \A j \in refs : i <= j])
        lo(t) == CHOOSE k \in DOMAIN t : \A h \in DOMAIN t : k <= h
        hi(t) == CHOOSE k \in DOMAIN t : \A h \in DOMAIN t : k >= h
        tl == by("traffic_light")
        measured == refs # {} /\ DOMAIN tl # {}
    IN head
       \o Warn(Cardinality(named) > 1, "intersect_id_mismatch_across_modalities")
       \o Warn(UnionTicks([m \in DOMAIN vals |-> by(m)]) = {}, "no_timestamps")
       \o (IF ~Exists(FileAt(paths["traffic_light"], disk))
           THEN <<"traffic_light_missing_file">>
           ELSE Warn(DOMAIN tl = {}, "traffic_light_empty"))
       \o Warn(measured /\ lo(tl) # lo(ref), "traffic_light_min_ts_offset")
       \o Warn(measured /\ hi(tl) # hi(ref), "traffic_light_max_ts_offset")
       \o Warn(ParseIntersectToMapId(intersect_id) # {} /\ disk.map # "ok",
               "map_load_failed")

\* Lines 962-1107, shared by both V2X families: load the four files through
\* the cache and assemble the bundle.  An exception leaves the cache as far
\* as it was filled.
V2XBundle(a, split, scene_id, paths, disk, head, ref_order) ==
    LET st == LoadModalities([cache |-> a.csv_cache, raised |-> "none", vals |-> EmptyDict,
                              hits |-> 0],
                             1, paths, disk)
        loaded == [m \in DOMAIN st.vals |-> st.vals[m].by_ts]
        ticks == SortedInts(UnionTicks(loaded))
    IN [adapter |-> [a EXCEPT !.csv_cache = st.cache],
        hits |-> st.hits,
        resp |-> IF st.raised # "none" THEN Raise(st.raised, split, scene_id)
                 ELSE Bundle(split, scene_id, ticks,
                             [i \in 1..Len(ticks) |-> Ts100msToFloat(ticks[i])],
                             Frames(loaded, ticks), loaded,
                             V2XWarnings(head, st.vals, paths, disk, ref_order))]

\* V2XTrajAdapter.load_scene_bundle
TrajLoadSceneBundle(a, split, scene_id, disk) ==
    LET paths == [m \in Range(V2XModalities) |-> TrajSceneFile(m, split, scene_id)]
        head == Warn(~Exists(disk["ego"]), "ego_missing_file")
                \o Warn(~Exists(disk["infra"]), "infra_missing_file")
                \o Warn(~Exists(disk["vehicle"]), "vehicle_missing_file")
    IN V2XBundle(a, split, scene_id, paths, disk, head, <<"ego", "vehicle", "infra">>)

\* V2XSeqAdapter._scene_file for the three trajectory modalities: the
\* indexed file, else a placeholder that does not exist.
SeqSceneFile(a, modality, split, scene_id) ==
    IF modality \in Get(Get(a.scene_files, split, EmptyDict), scene_id, {})
    THEN <<"data", modality, split, scene_id>>
    ELSE <<"__missing__", modality, split, scene_id>>

\* V2XSeqAdapter._scene_file("traffic_light", ...): an unresolved scene is
\* looked up in the traffic-light roots once, the answer is remembered, and
\* a file found is entered in the scene's file map.
SeqResolveTrafficLight(a, split, scene_id, disk) ==
    LET key == <<split, scene_id>>
        known == "traffic_light" \in Get(Get(a.scene_files, split, EmptyDict), scene_id, {})
        found == IF key \in DOMAIN a.tl_scene_path_cache THEN a.tl_scene_path_cache[key]
                 ELSE a.tl_roots /\ Exists(disk["traffic_light"])
        files == Get(a.scene_files, split, EmptyDict)
    IN IF known THEN a
       ELSE [a EXCEPT
                !.tl_scene_path_cache = Put(@, key, found),
                !.scene_files =
                    IF found
                    THEN Put(@, split,
                             Put(files, scene_id, Get(files, scene_id, {}) \cup {"traffic_light"}))
                    ELSE @]

\* V2XSeqAdapter.load_scene_bundle
SeqLoadSceneBundle(a, split, scene_id, disk) ==
    LET a1 == SeqResolveTrafficLight(a, split, scene_id, disk)
        paths == [m \in Range(V2XModalities) |-> SeqSceneFile(a1, m, split, scene_id)]
        traj == {m \in {"ego", "infra", "vehicle"} : Exists(FileAt(paths[m], disk))}
        head == Warn(traj = {}, "no_trajectory_modalities")
    IN V2XBundle(a1, split, scene_id, paths, disk, head, <<"ego", "infra", "vehicle">>)

----------------------------------------------------------------------------
(* inD: load_scene_bundle.  A data row of a tracks file is [trackId,       *)
(* frame]; the file has its header with both columns.  Positions in the    *)
(* file are row numbers.                                                   *)

\* float(s) then int(), on the number texts of the model: {n}, or {} for
\* None.
NumOf ==
    [s \in {"0", "1", "2", "3", "50", "150", "250", "1500"} |->
        CASE s = "0" -> 0 [] s = "1" -> 1 [] s = "2" -> 2 [] s = "3" -> 3
          [] s = "50" -> 50 [] s = "150" -> 150 [] s = "250" -> 250 [] OTHER -> 1500]

AsInt(s) == IF s \in DOMAIN NumOf THEN {NumOf[s]} ELSE {}

\* The scan of InDAdapter._ensure_offsets from row i on: cur_track ({} for
\* None) is the track of the open run and cur_start its first row; a run
\* ends where the track id changes, and a later run of the same track
\* replaces the earlier one.
RECURSIVE IndScanOffsets(_, _, _, _, _)
IndScanOffsets(rows, i, cur_track, cur_start, offsets) ==
    IF i > Len(rows)
    THEN IF cur_track = {} THEN offsets
         ELSE Put(offsets, CHOOSE t \in cur_track : TRUE, <<cur_start, i>>)
    ELSE LET tid == AsInt(rows[i].trackId)
         IN IF tid = {} THEN IndScanOffsets(rows, i + 1, cur_track, cur_start, offsets)
            ELSE IF cur_track = {} THEN IndScanOffsets(rows, i + 1, tid, i, offsets)
            ELSE IF tid # cur_track
            THEN IndScanOffsets(rows, i + 1, tid, i,
                                Put(offsets, CHOOSE t \in cur_track : TRUE, <<cur_start, i>>))
            ELSE IndScanOffsets(rows, i + 1, cur_track, cur_start, offsets)

\* InDAdapter._ensure_offsets: the offsets of a recording are read on first
\* use and kept.
IndEnsureOffsets(a, rec, tracks) ==
    IF rec \in DOMAIN a.offsets_by_track THEN [adapter |-> a, raised |-> "none"]
    ELSE IF tracks.state # "ok" THEN [adapter |-> a, raised |-> "OSError"]
    ELSE [adapter |-> [a EXCEPT !.offsets_by_track =
                            Put(@, rec, IndScanOffsets(tracks.rows, 1, {}, 1, EmptyDict))],
          raised |-> "none"]

\* InDAdapter._active_tracks
ActiveTracks(ref) ==
    LET overlaps(tm) == ~(tm.final_frame < ref.frame_start \/ tm.initial_frame > ref.frame_end)
    IN SelectSeq(ref.tracks_meta_list, overlaps)

\* Lines 2438-2497: the rows of the active tracks' segments, track by track,
\* each with the id of its track.
RECURSIVE IndReadSegments(_, _, _, _)
IndReadSegments(rows, active, i, offsets) ==
    IF i > Len(active) THEN <<>>
    ELSE LET tid == active[i].track_id
             seg == IF tid \in DOMAIN offsets
                    THEN SubSeq(rows, offsets[tid][1], Min(Len(rows), offsets[tid][2] - 1))
                    ELSE <<>>
         IN [j \in 1..Len(seg) |-> [id |-> tid, frame |-> seg[j].frame]]
            \o IndReadSegments(rows, active, i + 1, offsets)

\* InDAdapter.load_scene_bundle
InDLoadSceneBundle(a, split, scene_id, disk) ==
    LET scenes == a.scenes[AllSplit]
        ref == scenes[scene_id]
        eo == IndEnsureOffsets(a, ref.rec, disk.tracks)
        active == ActiveTracks(ref)
        recs == IndReadSegments(disk.tracks.rows, active, 1,
                                eo.adapter.offsets_by_track[ref.rec])
        inWindow(fr) == {n \in fr : n >= ref.frame_start /\ n <= ref.frame_end}
        by_frame == GroupByKey(recs, [i \in 1..Len(recs) |-> inWindow(AsInt(recs[i].frame))])
        loaded == ("infra" :> by_frame)
        frame_keys == SortedInts(DOMAIN by_frame)
        warnings == Warn(active = <<>>, "scene_window_empty")
                    \o Warn(DOMAIN by_frame = {}, "scene_window_empty")
                    \o Warn(disk.map = "missing", "map_missing")
                    \o Warn(disk.map = "broken", "map_load_failed")
    IN IF scene_id \notin DOMAIN scenes
       THEN [adapter |-> a, resp |-> Raise("KeyError", AllSplit, scene_id)]
       ELSE IF eo.raised # "none"
       THEN [adapter |-> eo.adapter, resp |-> Raise(eo.raised, AllSplit, scene_id)]
       ELSE IF disk.tracks.state # "ok"
       THEN [adapter |-> eo.adapter, resp |-> Raise("OSError", AllSplit, scene_id)]
       ELSE [adapter |-> eo.adapter,
             resp |-> Bundle(AllSplit, scene_id, frame_keys,
                             [i \in 1..Len(frame_keys) |->
                                 (frame_keys[i] * 1000) \div ref.frame_rate],
                             Frames(loaded, frame_keys), loaded, warnings)]

----------------------------------------------------------------------------
(* SinD: load_scene_bundle.  A row of a tracks file is [timestamp_ms,      *)
(* frame_id]; a row of the traffic-light file, which has a timestamp       *)
(* column and one state column, is [timestamp_ms, frame_id, state].  Every *)
(* scenario was indexed with its vehicle and pedestrian files and a map.   *)

\* int(round(v / unit)): Python rounds a tie to the even neighbour.
RoundHalfEven(v, unit) ==
    LET q == v \div unit
        r == v % unit
    IN IF 2 * r < unit THEN q
       ELSE IF 2 * r > unit THEN q + 1
       ELSE IF q % 2 = 0 THEN q ELSE q + 1

\* SinDAdapter._ts_key_from_ms, with the fallback to the frame number of
\* the row: {key}, or {} when the row has neither.
SindTsKey(row) ==
    IF AsInt(row.timestamp_ms) # {}
    THEN {RoundHalfEven(n, 100) : n \in AsInt(row.timestamp_ms)}
    ELSE AsInt(row.frame_id)

\* SinDAdapter._ts_from_key: float(key) / 10.0 seconds.
SindTsFromKey(k) == k * 100

\* SinDAdapter._read_tracks_csv on a readable or missing file.
SindReadTracksCsv(f, source_tag) ==
    GroupByKey([i \in 1..Len(f.rows) |-> [tag |-> source_tag, row |-> f.rows[i]]],
               [i \in 1..Len(f.rows) |-> SindTsKey(f.rows[i])])

\* SinDAdapter._tl_color_from_value
TlColorFromValue(raw) ==
    CASE raw = "0" -> "RED" [] raw = "1" -> "YELLOW" [] raw \in {"2", "3"} -> "GREEN"
      [] OTHER -> None

\* SinDAdapter._read_traffic_lights_csv: a row gives a record when its state
\* has a colour.
SindReadTrafficLightsCsv(f) ==
    GroupByKey([i \in 1..Len(f.rows) |-> [color_1 |-> TlColorFromValue(f.rows[i].state)]],
               [i \in 1..Len(f.rows) |->
                   IF TlColorFromValue(f.rows[i].state) = None THEN {}
                   ELSE SindTsKey(f.rows[i])])

\* infra_by_ts[k].extend(arr) for every k of the second table.
ExtendByKey(by1, by2) ==
    [k \in (DOMAIN by1) \cup (DOMAIN by2) |-> Get(by1, k, <<>>) \o Get(by2, k, <<>>)]

\* SinDAdapter.load_scene_bundle
SinDLoadSceneBundle(a, split, scene_id, disk) ==
    LET scenes == a.scenes[AllSplit]
        ref == scenes[scene_id]
        infra == ExtendByKey(SindReadTracksCsv(disk.veh, "veh"),
                             SindReadTracksCsv(disk.ped, "ped"))
        tl == IF ref.tl THEN SindReadTrafficLightsCsv(disk.tl) ELSE EmptyDict
        loaded == ("infra" :> infra) @@ ("traffic_light" :> tl)
        all_keys == SortedInts(UnionTicks(loaded))
        warnings == Warn(disk.map = "broken", "map_load_failed")
                    \o Warn(disk.map # "ok", "map_missing")
                    \o Warn(DOMAIN infra = {}, "scene_window_empty")
                    \o Warn(ref.tl /\ DOMAIN tl = {}, "traffic_light_empty")
    IN IF scene_id \notin DOMAIN scenes
       THEN [adapter |-> a, resp |-> Raise("KeyError", AllSplit, scene_id)]
       ELSE IF \/ disk.veh.state = "unreadable" \/ disk.ped.state = "unreadable"
               \/ ref.tl /\ disk.tl.state = "unreadable"
       THEN [adapter |-> a, resp |-> Raise("OSError", AllSplit, scene_id)]
       ELSE [adapter |-> a,
             resp |-> Bundle(AllSplit, scene_id, all_keys,
                             [i \in 1..Len(all_keys) |-> SindTsFromKey(all_keys[i])],
                             Frames(loaded, all_keys), loaded, warnings)]

----------------------------------------------------------------------------
(* CPM: load_scene_bundle.  The log is read again, in full: rows of the    *)
(* scene's sensor whose bucketed timestamp lies in the scene's window.     *)

\* The row filter the index recorded for a sensor: the RSU value of a
\* multiplexed sensor, none for the sensor of the file itself.
CpmRowFilterValue(sensor_id) == IF sensor_id = "base__A" THEN "A" ELSE None

\* CpmObjectsAdapter.load_scene_bundle
CpmLoadSceneBundle(a, split, scene_id, disk) ==
    LET scenes == a.scenes[AllSplit]
        ref == scenes[scene_id]
        w == ref.window
        rows == disk.log.rows
        filter_value == CpmRowFilterValue(ref.gid)
        key(row) ==
            IF filter_value # None /\ row.rsu # filter_value THEN {}
            ELSE IF row.ts \notin DOMAIN AsIntMs THEN {}
            ELSE {t \in {BucketTsMs(AsIntMs[row.ts], Cpm_DEFAULT_FRAME_BIN_MS)} :
                     t >= w.start_ms /\ t <= w.end_ms}
        by_ts == GroupByKey(rows, [i \in 1..Len(rows) |-> key(rows[i])])
        loaded == ("infra" :> by_ts)
        ts_list == SortedInts(DOMAIN by_ts)
    IN IF scene_id \notin DOMAIN scenes
       THEN [adapter |-> a, resp |-> Raise("KeyError", AllSplit, scene_id)]
       ELSE IF disk.log.state # "ok"
       THEN [adapter |-> a, resp |-> Raise("RuntimeError", AllSplit, scene_id)]
       ELSE [adapter |-> a,
             resp |-> Bundle(AllSplit, scene_id, ts_list, ts_list,
                             Frames(loaded, ts_list), loaded,
                             Warn(DOMAIN by_ts = {}, "scene_window_empty"))]

----------------------------------------------------------------------------
(* load_scene_bundle of an adapter, and what it may find on disk.          *)

LoadSceneBundle(a, split, scene_id, disk) ==
    CASE a.family = "v2x-traj" -> TrajLoadSceneBundle(a, split, scene_id, disk)
      [] a.family = "v2x-seq" -> SeqLoadSceneBundle(a, split, scene_id, disk)
      [] a.family = "ind" -> InDLoadSceneBundle(a, split, scene_id, disk)
      [] a.family = "sind" -> SinDLoadSceneBundle(a, split, scene_id, disk)
      [] OTHER -> CpmLoadSceneBundle(a, split, scene_id, disk)

\* A file in any state, with at most n data rows out of rows.
FilesUpTo(rows, n) == {Missing, Unreadable} \cup {File(r) : r \in SeqUpTo(rows, n)}

V2XFileRows == [timestamp : {"0.04", "0.05", "bad"}, intersect_id : {"y#4"}]

V2XTlFileRows == [timestamp : {"0.14", "-0.05", "bad"}, intersect_id : {"y#4"}]

IndTrackRows == [trackId : {"1", "2"}, frame : {"0", "1", "1500", "x"}]

SindTrackRows ==
    {[timestamp_ms |-> "50", frame_id |-> ""], [timestamp_ms |-> "250", frame_id |-> ""],
     [timestamp_ms |-> "", frame_id |-> "3"], [timestamp_ms |-> "", frame_id |-> ""]}

SindTlRows ==
    {[timestamp_ms |-> "50", frame_id |-> "", state |-> "0"],
     [timestamp_ms |-> "250", frame_id |-> "", state |-> ""]}

\* The disks a bundle load may meet, with scene files of at most n rows.
SceneDisks(family, n) ==
    CASE family \in {"v2x-traj", "v2x-seq"} ->
            [ego : FilesUpTo(V2XFileRows, n), infra : {Missing}, vehicle : {Missing},
             traffic_light : FilesUpTo(V2XTlFileRows, 1), map : {"ok", "broken"}]
      [] family = "ind" ->
            [tracks : FilesUpTo(IndTrackRows, n), map : {"ok", "broken"}]
      [] family = "sind" ->
            [veh : FilesUpTo(SindTrackRows, n),
             ped : {Missing, File(<<[timestamp_ms |-> "150", frame_id |-> ""]>>)},
             tl : {Missing, Unreadable} \cup {File(<<r>>) : r \in SindTlRows},
             map : {"ok", "broken"}]
      [] OTHER -> [log : FilesUpTo(CpmRows, n)]

\* A few disks: each file missing, unreadable or with one row.
SampleDisks(family) ==
    CASE family \in {"v2x-traj", "v2x-seq"} ->
            [ego : {Missing, Unreadable,
                    File(<<[timestamp |-> "0.05", intersect_id |-> "y#4"]>>)},
             infra : {Missing}, vehicle : {Missing},
             traffic_light : {Missing}, map : {"ok"}]
      [] family = "ind" ->
            [tracks : {Missing, File(<<[trackId |-> "1", frame |-> "0"]>>)}, map : {"ok"}]
      [] family = "sind" ->
            [veh : {Missing, Unreadable, File(<<[timestamp_ms |-> "50", frame_id |-> ""]>>)},
             ped : {Missing}, tl : {Missing}, map : {"ok"}]
      [] OTHER -> [log : {Missing, File(<<[rsu |-> "", ts |-> "0"]>>)}]

----------------------------------------------------------------------------
(* One request thread using the store and the adapters it returns: the     *)
(* handler obtains the adapter with get_adapter and calls one operation.   *)

SplitArgs == {"train", "all"}

AllSceneIds(a) == UNION {DOMAIN a.scenes[sp] : sp \in DOMAIN a.scenes}

SceneArgs(a) == AllSceneIds(a) \cup {"nope"}

GroupArgs(a) ==
    {None} \cup
    (UNION {{a.scenes[sp][sid].gid : sid \in DOMAIN a.scenes[sp]} : sp \in DOMAIN a.scenes})

\* (limit, offset) pairs of a request.
PageArgs == {<<1, 1>>, <<2, 0>>}

DoListIntersections(d, split) ==
    /\ d \in DOMAIN adapters
    /\ resp' = ListIntersections(adapters[d], split)
    /\ UNCHANGED storeVars

DoListScenes(d, split, intersect_id, limit, offset, include_tl_only) ==
    /\ d \in DOMAIN adapters
    /\ resp' = ListScenes(adapters[d], split, intersect_id, limit, offset, include_tl_only)
    /\ UNCHANGED storeVars

DoLocateScene(d, split, scene_id) ==
    /\ d \in DOMAIN adapters
    /\ resp' = LocateScene(adapters[d], split, scene_id)
    /\ UNCHANGED storeVars

\* The index under every dataset of at most MaxRows rows, and its queries.
InitIndex == \E f \in Families : InitStoreWith("a" :> f)

IndexBuild(t) ==
    /\ pc[t] = "build"
    /\ \E inp \in BuildInputs(specs[req[t]], MaxRows) : Build(t, inp)

Queries(d) ==
    \E split \in SplitArgs :
        \/ DoListIntersections(d, split)
        \/ \E g \in GroupArgs(adapters[d]), pg \in PageArgs, tl \in BOOLEAN :
                DoListScenes(d, split, g, pg[1], pg[2], tl)
        \/ \E sid \in SceneArgs(adapters[d]) : DoLocateScene(d, split, sid)

NextIndex ==
    \/ \E d \in DatasetIds : Call(1, d)
    \/ Enter(1)
    \/ IndexBuild(1)
    \/ \E d \in DOMAIN adapters : pc[1] = "idle" /\ Queries(d)

SpecIndex == InitIndex /\ [][NextIndex]_vars

----------------------------------------------------------------------------
(* Scene bundles of one scene-complete dataset per family, over every disk *)
(* of at most MaxFileRows rows per file.                                   *)

DoLoadSceneBundle(d, split, scene_id, disk) ==
    /\ d \in DOMAIN adapters
    /\ LET out == LoadSceneBundle(adapters[d], split, scene_id, disk)
       IN /\ adapters' = [adapters EXCEPT ![d] = out.adapter]
          /\ resp' = [out.resp EXCEPT !.dataset_id = d]
    /\ UNCHANGED <<specs, adapter_errors, adapter_lock, pc, req, ret, builds, returned,
                   on_disk>>

\* The dataset of the family: one V2X scene with an ego and a traffic-light
\* file (indexed from the folders or from a scene table), one inD
\* recording of one window, one SinD scenario with traffic lights, a CPM
\* log of two sensors.
BundleInputs(family) ==
    CASE family \in {"v2x-traj", "v2x-seq"} ->
            {[io_error |-> FALSE, source |-> src,
              data |-> <<[split |-> "train", sid |-> "2", gid |-> "g1", mod |-> "ego"],
                         [split |-> "train", sid |-> "2", gid |-> "g1",
                          mod |-> "traffic_light"]>>] : src \in {"csv", "dirs"}}
      [] family = "ind" ->
            {[io_error |-> FALSE, source |-> "dirs",
              data |-> <<[loc |-> "1", max_frame |-> 1499, frame_rate |-> 25]>>]}
      [] family = "sind" ->
            {[io_error |-> FALSE, source |-> "dirs",
              data |-> <<[city |-> "c1", scen |-> <<[tl |-> TRUE]>>]>>]}
      [] OTHER ->
            {[io_error |-> FALSE, source |-> "dirs",
              data |-> <<[rsu |-> "", ts |-> "0"], [rsu |-> "A", ts |-> "50"]>>]}

InitBundle == \E f \in SUPPORTED_DATASET_FAMILIES : InitStoreWith("a" :> f)

BundleBuild(t) ==
    /\ pc[t] = "build"
    /\ \E inp \in BundleInputs(specs[req[t]]) : Build(t, inp)

NextBundle ==
    \/ \E d \in DatasetIds : Call(1, d)
    \/ Enter(1)
    \/ BundleBuild(1)
    \/ \E d \in DOMAIN adapters :
          /\ pc[1] = "idle"
          /\ \E sid \in AllSceneIds(adapters[d]),
                disk \in SceneDisks(adapters[d].family, MaxFileRows) :
                DoLoadSceneBundle(d, "train", sid, disk)

SpecBundle == InitBundle /\ [][NextBundle]_vars

----------------------------------------------------------------------------
(* The store with its adapters in use: get_adapter, the queries and        *)
(* load_scene_bundle for known and unknown ids, on sample datasets and     *)
(* sample disks.                                                           *)

\* The datasets of StoreInputs; for V2X an unreadable one and one of two
\* scenes.
SampleInputs(family) ==
    IF family \in {"v2x-traj", "v2x-seq"}
    THEN {IoError,
          [io_error |-> FALSE, source |-> "dirs",
           data |-> <<[split |-> "train", sid |-> "10", gid |-> "g1", mod |-> "ego"],
                      [split |-> "train", sid |-> "2", gid |-> "g1", mod |-> "ego"]>>]}
    ELSE StoreInputs(family)

SampleBuild(t) ==
    /\ pc[t] = "build"
    /\ \E inp \in SampleInputs(specs[req[t]]) : Build(t, inp)

Next ==
    \/ \E d \in DatasetIds : Call(1, d)
    \/ Enter(1)
    \/ SampleBuild(1)
    \/ \E d \in DOMAIN adapters : pc[1] = "idle" /\ Queries(d)
    \/ \E d \in DOMAIN adapters :
          /\ pc[1] = "idle"
          /\ \E sid \in SceneArgs(adapters[d]), disk \in SampleDisks(adapters[d].family) :
                DoLoadSceneBundle(d, "train", sid, disk)

Spec == InitIndex /\ [][Next]_vars

----------------------------------------------------------------------------
(* Properties of the store (SpecStore).                                    *)

\* C1: for concurrent get_adapter calls on one dataset the builder runs at
\* most once; it runs under the store lock, so there is at most one builder
\* at a time and the other callers wait for it; and every caller that gets
\* past the lookup is given the same adapter instance, or every one the same
\* construction error.
C1_BuildAtMostOnce ==
    /\ \A d \in DatasetIds : builds[d] <= 1
    /\ \A t \in Threads : pc[t] = "build" => adapter_lock = t
    /\ \A d \in DatasetIds : \A r1, r2 \in returned[d] : Outcome(r1) = Outcome(r2)

\* Two threads asked for the same dataset: one builds, the other waits at the
\* lock.
C1_Witness ==
    \E t1, t2 \in Threads :
        /\ t1 # t2
        /\ pc[t1] = "build" /\ pc[t2] = "lock"
        /\ req[t1] = req[t2]

\* C2: once a build has failed the error is cached: every later step keeps
\* the message, never invokes the builder for that dataset again, never
\* makes an adapter for it, and every get_adapter call on it that finishes
\* raises RuntimeError with that same message.
C2_FailureIsCached ==
    [][\A d \in DatasetIds :
         d \in DOMAIN adapter_errors =>
            /\ d \in DOMAIN adapter_errors'
            /\ adapter_errors'[d] = adapter_errors[d]
            /\ builds'[d] = builds[d]
            /\ d \notin DOMAIN adapters'
            /\ ret'.d = d => Outcome(ret') = RuntimeErrorRet(d, adapter_errors[d], FALSE)]_vars

\* A dataset whose build failed was asked for again, after a build of the
\* other dataset, and the call raised the cached error.
C2_Witness ==
    /\ ret.kind = "RuntimeError" /\ ret.hit
    /\ \E e \in DatasetIds : e # ret.d /\ builds[e] = 1

\* C6: get_adapter never gives an adapter whose scene index is empty: with
\* no scene discoverable construction fails, in every family.
C6_NeverEmptyIndex ==
    \A d \in DOMAIN adapters : ~NoScenes(adapters[d])

----------------------------------------------------------------------------
(* Properties of the scene index and its queries (SpecIndex).              *)

\* C7: locate_scene answers found=true exactly for the scene ids of the
\* index: for V2X the ids of the requested split (none for an unknown
\* split), for the windowed families, which ignore the split, the ids of the
\* adapter; for every other id it answers found=false.
C7_FoundIffIndexed ==
    \A d \in DOMAIN adapters :
        LET a == adapters[d]
            indexed(split) ==
                IF a.family \in {"v2x-traj", "v2x-seq"}
                THEN IF split \in DOMAIN a.scenes THEN DOMAIN a.scenes[split] ELSE {}
                ELSE DOMAIN a.scenes[AllSplit]
        IN \A split \in SplitArgs, sid \in SceneArgs(a) :
              LocateScene(a, split, sid).found <=> sid \in indexed(split)

\* locate_scene was asked, on a V2X adapter and with an unknown split, for
\* an id that the train split holds, and answered found=false.
C7_Witness ==
    /\ resp.op = "locate_scene" /\ ~resp.found
    /\ "a" \in DOMAIN adapters
    /\ adapters["a"].family \in {"v2x-traj", "v2x-seq"}
    /\ resp.split = "all"
    /\ resp.scene_id \in DOMAIN adapters["a"].scenes["train"]

\* C10: for every scene locate_scene finds, index_all is its position in the
\* ordering list_scenes(split) pages through and total_all is that listing's
\* total; index_in_intersection and total_in_intersection agree in the same
\* way with list_scenes(split, intersect_id).
C10_LocateAgreesWithList ==
    \A d \in DOMAIN adapters :
        LET a == adapters[d] IN
        \A split \in SplitArgs, sid \in AllSceneIds(a) :
            LET loc == LocateScene(a, split, sid)
                all == ListScenes(a, split, None, 1, loc.index_all, FALSE)
                grp == ListScenes(a, split, loc.intersect_id, 1,
                                  loc.index_in_intersection, FALSE)
            IN loc.found =>
                /\ loc.index_all # NoIndex
                /\ all.total = loc.total_all
                /\ Len(all.items) = 1 /\ all.items[1].scene_id = sid
                /\ loc.index_in_intersection # NoIndex =>
                      /\ grp.total = loc.total_in_intersection
                      /\ Len(grp.items) = 1 /\ grp.items[1].scene_id = sid

----------------------------------------------------------------------------
(* Properties of load_scene_bundle over every disk (SpecBundle).           *)

\* C4: load_scene_bundle for a scene id of the index never raises: a
\* missing, unreadable or malformed scene file or a map that fails to load
\* shows as a warning of the bundle returned.
C4_IndexedSceneNeverRaises ==
    (/\ resp.op = "load_scene_bundle"
     /\ resp.dataset_id \in DOMAIN adapters
     /\ resp.scene_id \in AllSceneIds(adapters[resp.dataset_id]))
        => resp.raised = "none"

\* C8: in every bundle returned the timestamps are strictly increasing,
\* there is one frame per timestamp, the ticks are exactly the union of the
\* tick keys of the modality tables loaded for the scene, and the frame of
\* a tick holds, per modality, the records of that tick, the empty list
\* where the modality has none.
C8_OneFramePerTick ==
    (resp.op = "load_scene_bundle" /\ resp.raised = "none") =>
        /\ Len(resp.frames) = Len(resp.timestamps)
        /\ Len(resp.ticks) = Len(resp.timestamps)
        /\ \A i, j \in 1..Len(resp.timestamps) :
              i < j => resp.timestamps[i] < resp.timestamps[j]
        /\ Range(resp.ticks) = UNION {DOMAIN resp.loaded[m] : m \in DOMAIN resp.loaded}
        /\ \A i \in 1..Len(resp.frames) :
              /\ DOMAIN resp.frames[i] = DOMAIN resp.loaded
              /\ \A m \in DOMAIN resp.loaded :
                    resp.frames[i][m] =
                        IF resp.ticks[i] \in DOMAIN resp.loaded[m]
                        THEN resp.loaded[m][resp.ticks[i]] ELSE <<>>

\* A bundle of two modalities and at least two frames, one of them with no
\* record of a modality that has records at another tick.
C8_Witness ==
    /\ resp.op = "load_scene_bundle" /\ resp.raised = "none"
    /\ Len(resp.frames) >= 2
    /\ \A m \in {"ego", "traffic_light"} :
          m \in DOMAIN resp.loaded /\ DOMAIN resp.loaded[m] # {}
    /\ \E i \in 1..Len(resp.frames) : resp.frames[i]["traffic_light"] = <<>>

----------------------------------------------------------------------------
(* Properties of the store with its adapters in use (Spec).                *)

\* C3: load_scene_bundle with a scene id that is not in the scene index of
\* the adapter raises KeyError, in every family.
C3_UnknownSceneRaisesKeyError ==
    (/\ resp.op = "load_scene_bundle"
     /\ resp.dataset_id \in DOMAIN adapters
     /\ resp.scene_id \notin AllSceneIds(adapters[resp.dataset_id]))
        => resp.raised = "KeyError"

C9_ListScenesDeterministic ==
    [][\A d \in (DOMAIN adapters) \cap (DOMAIN adapters') :
         \A split \in SplitArgs, g \in GroupArgs(adapters[d]), pg \in PageArgs,
            tl \in BOOLEAN :
            LET before == ListScenes(adapters[d], split, g, pg[1], pg[2], tl)
                after == ListScenes(adapters'[d], split, g, pg[1], pg[2], tl)
            IN after.total = before.total /\ after.items = before.items
      ]_vars

\* list_scenes answered on an adapter whose parsed-CSV cache has evicted
\* entries: the oldest entry left is not the first file of a load.
C9_Witness ==
    /\ resp.op = "list_scenes" /\ Len(resp.items) = 2
    /\ \E d \in DOMAIN adapters :
          /\ adapters[d].csv_cache # <<>>
          /\ adapters[d].csv_cache[1].key[2][2] # "ego"

----------------------------------------------------------------------------
(* Properties of the listing (SpecIndex).                                  *)

\* C11: the availability block of a list_scenes response counts over the
\* whole filtered set and not over the page returned: whatever limit and
\* offset the request had, scene_count is the number of filtered scenes and
\* every by_modality count is the number of filtered scenes that have the
\* modality.
C11_AvailabilityOverFilteredSet ==
    resp.op = "list_scenes" =>
        \A d \in DOMAIN adapters, split \in SplitArgs, pg \in PageArgs, tl \in BOOLEAN :
            \A g \in GroupArgs(adapters[d]) :
                resp = ListScenes(adapters[d], split, g, pg[1], pg[2], tl) =>
                    LET ids == ListedIds(adapters[d], split, g, tl)
                        scenes == ScenesOf(adapters[d], split)
                        av == resp.availability
                    IN /\ av.scene_count = Len(ids)
                       /\ \A mod \in DOMAIN av.by_modality :
                             av.by_modality[mod] =
                                Cardinality({i \in 1..Len(ids) : mod \in scenes[ids[i]].mods})

\* C12: the families that number their scenes themselves (inD, SinD, CPM)
\* give them exactly the ids "1".."N", without gap or duplicate, in the
\* natural order of the family: CPM by ascending sensor id and, within a
\* sensor, ascending window start; inD by recording and window; SinD by
\* city and scenario.
C12_DenseSceneIds ==
    \A d \in DOMAIN adapters :
        adapters[d].family \in {"ind", "sind", "cpm-objects"} =>
            LET a == adapters[d]
                sc == a.scenes[AllSplit]
                N == Cardinality(DOMAIN sc)
                ref(n) == sc[StrOf[n]]
            IN /\ DOMAIN a.scenes = {AllSplit}
               /\ DOMAIN sc = {StrOf[n] : n \in 1..N}
               /\ a.sorted_ids[AllSplit] = [n \in 1..N |-> StrOf[n]]
               /\ \A n, k \in 1..N : n < k =>
                    CASE a.family = "cpm-objects" ->
                            \/ StrLess(ref(n).gid, ref(k).gid)
                            \/ /\ ref(n).gid = ref(k).gid
                               /\ ref(n).window.first_ts_ms < ref(k).window.first_ts_ms
                               /\ ref(n).window_i < ref(k).window_i
                      [] a.family = "ind" ->
                            \/ ref(n).rec < ref(k).rec
                            \/ /\ ref(n).rec = ref(k).rec
                               /\ ref(n).window_i < ref(k).window_i
                               /\ ref(n).frame_start < ref(k).frame_start
                      [] OTHER ->
                            \/ StrLess(ref(n).gid, ref(k).gid)
                            \/ ref(n).gid = ref(k).gid /\ ref(n).scenario < ref(k).scenario

\* A CPM adapter of two sensors, one window each, numbered by sensor id.
C12_Witness ==
    \E d \in DOMAIN adapters :
        /\ adapters[d].family = "cpm-objects"
        /\ DOMAIN adapters[d].scenes[AllSplit] = {"1", "2"}
        /\ adapters[d].scenes[AllSplit]["1"].gid = "base"
        /\ adapters[d].scenes[AllSplit]["2"].gid = "base__A"

----------------------------------------------------------------------------
(* The parsed-CSV cache of a V2X adapter over files that stay as they are: *)
(* a dataset of two scenes, each with an ego file and possibly a           *)
(* traffic-light file, loaded again and again in any order.                *)

\* The files of a scene that has none.
NoSceneFiles ==
    [ego |-> Missing, infra |-> Missing, vehicle |-> Missing,
     traffic_light |-> Missing, map |-> "ok"]

\* The files of the scenes "10" and "2".
KeptFiles ==
    [{"10", "2"} ->
        [ego : {Missing, Unreadable,
                File(<<[timestamp |-> "0.04", intersect_id |-> "y#4"]>>),
                File(<<[timestamp |-> "0.05", intersect_id |-> "y#4"]>>)},
         infra : {Missing}, vehicle : {Missing},
         traffic_light : {Missing, File(<<[timestamp |-> "0.14", intersect_id |-> "y#4"]>>)},
         map : {"ok"}]]

DiskAt(scene_id) == Get(on_disk, scene_id, NoSceneFiles)

\* load_scene_bundle over the files that stay; the response also tells how
\* many of the four tables the cache served.
DoLoadKept(d, split, scene_id) ==
    /\ d \in DOMAIN adapters
    /\ LET out == LoadSceneBundle(adapters[d], split, scene_id, DiskAt(scene_id))
       IN /\ adapters' = [adapters EXCEPT ![d] = out.adapter]
          /\ resp' = [cache_hits |-> out.hits] @@ [out.resp EXCEPT !.dataset_id = d]
    /\ UNCHANGED <<specs, adapter_errors, adapter_lock, pc, req, ret, builds, returned,
                   on_disk>>

InitCache ==
    \E f \in {"v2x-traj", "v2x-seq"}, fs \in KeptFiles : InitStoreOver("a" :> f, fs)

CacheBuild(t) ==
    /\ pc[t] = "build"
    /\ \E inp \in SampleInputs(specs[req[t]]) \ {IoError} : Build(t, inp)

NextCache ==
    \/ \E d \in DatasetIds : Call(1, d)
    \/ Enter(1)
    \/ CacheBuild(1)
    \/ \E d \in DOMAIN adapters :
          /\ pc[1] = "idle"
          /\ \E sid \in SceneArgs(adapters[d]) : DoLoadKept(d, "train", sid)

SpecCache == InitCache /\ [][NextCache]_vars

\* C13: a scene bundle is the same whether its tables come out of the
\* parsed-CSV cache or are parsed afresh: every load_scene_bundle, whatever
\* the cache holds after the loads and evictions before it, returns the
\* frames, timestamps and per-modality tables (of which the modality stats
\* are computed) that the same call returns on an empty cache.
C13_WarmEqualsCold ==
    [][\A d \in DOMAIN adapters :
          (/\ pc' = pc /\ ret' = ret
           /\ resp'.op = "load_scene_bundle" /\ resp'.dataset_id = d) =>
              LET cold == LoadSceneBundle([adapters[d] EXCEPT !.csv_cache = <<>>],
                                          resp'.split, resp'.scene_id,
                                          DiskAt(resp'.scene_id)).resp
              IN /\ resp'.raised = cold.raised
                 /\ resp'.frames = cold.frames
                 /\ resp'.timestamps = cold.timestamps
                 /\ resp'.loaded = cold.loaded
                 /\ resp'.warnings = cold.warnings
      ]_vars

\* A bundle with frames served entirely from the cache, on an adapter whose
\* cache has evicted entries of the other scene in between.
C13_Witness ==
    /\ resp.op = "load_scene_bundle" /\ resp.raised = "none"
    /\ resp.frames # <<>>
    /\ resp.cache_hits = Len(V2XModalities)
    /\ \E d \in DOMAIN adapters :
          /\ Len(adapters[d].csv_cache) = CsvCacheMaxItems
          /\ adapters[d].csv_cache[1].key[2][4] # resp.scene_id
          /\ adapters[d].csv_cache[1].key[2][2] # "ego"

----------------------------------------------------------------------------
(* apps/server/profiles.py: detect_profile.  Scores are floats between 0   *)
(* and 100 in the source; here a score is an integer number of Pt-ths of a *)
(* point, so that the products by 0.55, 0.45, 0.4, 0.05 and 0.02 of the    *)
(* scores of the model are exact.  What the detectors infer from the       *)
(* selected paths is kept in on_disk.                                      *)

Pt == 100 * 100

\* _clamp
Clamp(n, lo, hi) == Max(lo, Min(hi, n))

DecisionAbove(score) ==
    IF score > 75 * Pt THEN "auto" ELSE IF score >= 50 * Pt THEN "confirm" ELSE "manual"

\* "auto" if score >= 75 else ("confirm" if score >= 50 else "manual")
Decision(score) ==
    IF score >= 75 * Pt THEN "auto" ELSE IF score >= 50 * Pt THEN "confirm" ELSE "manual"

\* What a detector returns; profile tells whether it holds a profile dict.
Detected(dataset_type, score, second_best, decision_mode, profile) ==
    [dataset_type |-> dataset_type, score |-> score, second_best |-> second_best,
     decision_mode |-> decision_mode, profile |-> profile]

\* _detect_ind over inf = [found, usable, score]: whether a root and data
\* directory were inferred, whether recordings were found, the score.
DetectInd(inf) ==
    IF ~inf.found THEN Detected("ind", 0, 0, "manual", FALSE)
    ELSE IF ~inf.usable
    THEN Detected("ind", Clamp((inf.score * 4) \div 10, 0, 100 * Pt), 0, "manual", FALSE)
    ELSE Detected("ind", inf.score, 0, Decision(inf.score), TRUE)

\* _detect_sind: no root, no data directory or no scenario folder.
DetectSind(inf) ==
    IF ~inf.found \/ ~inf.usable
    THEN Detected("sind", Clamp((inf.score * 4) \div 10, 0, 100 * Pt), 0, "manual", FALSE)
    ELSE Detected("sind", inf.score, 0, Decision(inf.score), TRUE)

\* _detect_v2x_seq: usable when a trajectory directory was bound.
DetectV2xSeq(inf) ==
    IF ~inf.found THEN Detected("v2x_seq", 0, 0, "manual", FALSE)
    ELSE IF ~inf.usable
    THEN Detected("v2x_seq", Clamp((inf.score * 4) \div 10, 0, 100 * Pt), 0, "manual", FALSE)
    ELSE Detected("v2x_seq", inf.score, 0, Decision(inf.score), TRUE)

\* root_score of _detect_v2x: n_traj of the three trajectory directories
\* exist, each with a sample CSV scored dir_score; tl and maps tell whether
\* the traffic-light and maps directories exist.
V2xRootScore(inf) ==
    inf.n_traj * (18 * Pt + (inf.dir_score * 5) \div 100)
        + (IF inf.tl THEN 8 * Pt + (inf.dir_score * 2) \div 100 ELSE 0)
        + (IF inf.maps THEN 8 * Pt ELSE 0)

\* _detect_v2x over inf = [has_root, best, n_traj, tl, maps, dir_score]:
\* best is {score} of the best scenes CSV, {} when none scored.
DetectV2x(inf) ==
    LET root == V2xRootScore(inf)
        total_score ==
            IF inf.best # {}
            THEN Clamp((55 * (CHOOSE b \in inf.best : TRUE) + 45 * Max(0, root)) \div 100,
                       0, 100 * Pt)
            ELSE Clamp(Max(0, root), 0, 100 * Pt)
    IN IF ~inf.has_root THEN Detected("v2x_traj", 0, 0, "manual", FALSE)
       ELSE IF inf.n_traj < 3
       THEN Detected("v2x_traj", Clamp(total_score \div 2, 0, 100 * Pt), 0, "manual", FALSE)
       ELSE Detected("v2x_traj", total_score, 0, Decision(total_score), TRUE)

\* _detect_cpm over the scores of the CSV files, best first: top and second.
DetectCpm(inf) ==
    Detected("consider_it_cpm", inf.top, inf.second,
             IF inf.top >= 75 * Pt /\ inf.top - inf.second >= 12 * Pt THEN "auto"
             ELSE IF inf.top >= 50 * Pt THEN "confirm" ELSE "manual",
             TRUE)

\* _normalize_dataset_type on the hints of the model.
NormalizeDatasetType(raw) ==
    CASE raw \in {"v2x-traj", "v2x_traj"} -> "v2x_traj"
      [] raw = "v2x-seq" -> "v2x_seq"
      [] raw \in {"cpm", "consider_it_cpm"} -> "consider_it_cpm"
      [] raw = "ind" -> "ind"
      [] raw = "sind" -> "sind"
      [] OTHER -> ""

\* sorted(..., key=score, reverse=True) of the five results: the sort is
\* stable, so among equal scores the detection order is kept.
RankedDetections(all) ==
    LET before(i, j) == all[i].score > all[j].score \/ (all[i].score = all[j].score /\ i < j)
    IN [k \in 1..Len(all) |->
           all[CHOOSE i \in 1..Len(all) :
                   Cardinality({j \in 1..Len(all) : before(j, i)}) = k - 1]]

\* detect_profile(repo_root, payload): has_paths tells whether the payload
\* names an existing path, type_hint is its dataset_type, inp what the
\* detectors infer.
DetectProfile(has_paths, type_hint, inp) ==
    LET hint == NormalizeDatasetType(type_hint)
        ranked == RankedDetections(<<DetectCpm(inp.cpm), DetectV2x(inp.v2x),
                                     DetectV2xSeq(inp.v2x_seq), DetectInd(inp.ind),
                                     DetectSind(inp.sind)>>)
        score == ranked[1].score
        second == ranked[2].score
        picked ==
            CASE hint = "v2x_traj" -> DetectV2x(inp.v2x)
              [] hint = "v2x_seq" -> DetectV2xSeq(inp.v2x_seq)
              [] hint = "consider_it_cpm" -> DetectCpm(inp.cpm)
              [] hint = "ind" -> DetectInd(inp.ind)
              [] hint = "sind" -> DetectSind(inp.sind)
              [] OTHER ->
                    [ranked[1] EXCEPT
                        !.second_best = second,
                        !.decision_mode =
                            IF score >= 75 * Pt /\ score - second >= 12 * Pt THEN "auto"
                            ELSE IF score >= 50 * Pt THEN "confirm" ELSE "manual"]
    IN IF ~has_paths THEN [op |-> "detect_profile", ok |-> FALSE]
       ELSE [op |-> "detect_profile", ok |-> picked.profile] @@ picked

\* The scores a detector infers: below, at and above the thresholds 50 and
\* 75, and 12 points apart.
Scores == {50 * Pt, 63 * Pt, 75 * Pt}

DirInputs == [found : BOOLEAN, usable : BOOLEAN, score : Scores]

DetectInputs ==
    [cpm : {i \in [top : Scores \cup {0}, second : {0, 63 * Pt + 1, 75 * Pt}] :
                i.second <= i.top},
     v2x : [has_root : BOOLEAN, best : {{}, {100 * Pt}}, n_traj : {2, 3},
            tl : {TRUE}, maps : {TRUE}, dir_score : {20 * Pt, 100 * Pt}],
     v2x_seq : {i \in DirInputs : i.found /\ i.score # 50 * Pt},
     ind : [found : BOOLEAN, usable : {TRUE}, score : Scores \cup {40 * Pt}],
     sind : {i \in DirInputs : i.found /\ i.score # 63 * Pt}]

TypeHints == {"", "v2x-traj", "v2x-seq", "cpm", "ind", "sind", "other"}

DoDetectProfile(has_paths, type_hint) ==
    /\ resp' = DetectProfile(has_paths, type_hint, on_disk)
    /\ UNCHANGED storeVars

InitDetect == \E inp \in DetectInputs : InitStoreOver(EmptyDict, inp)

NextDetect == \E has_paths \in BOOLEAN, hint \in TypeHints : DoDetectProfile(has_paths, hint)

SpecDetect == InitDetect /\ [][NextDetect]_vars

\* C14: in every detect_profile result that reports a score, with or
\* without a dataset_type hint, decision_mode is "auto" exactly when the
\* score is at least 75 and at least 12 above second_best, "confirm"
\* exactly when it is not auto and the score is at least 50, and "manual"
\* otherwise.
C14_DecisionFollowsScore ==
    (resp.op = "detect_profile" /\ "score" \in DOMAIN resp) =>
        LET auto == resp.score >= 75 * Pt /\ resp.score - resp.second_best >= 12 * Pt
        IN resp.decision_mode =
              IF auto THEN "auto" ELSE IF resp.score >= 50 * Pt THEN "confirm" ELSE "manual"

\* A result without hint whose score is at least 75 but less than 12 above
\* the runner-up, so that it is only "confirm".
C14_Witness ==
    /\ resp.op = "detect_profile" /\ "score" \in DOMAIN resp
    /\ resp.score >= 75 * Pt
    /\ resp.second_best > 0 /\ resp.score - resp.second_best < 12 * Pt
    /\ resp.dataset_type # "consider_it_cpm"
    /\ resp.decision_mode = "confirm"

----------------------------------------------------------------------------
(* The index and locator data of a constructed adapter (Spec).             *)

\* C15: once an adapter is constructed, no query and no load_scene_bundle
\* writes its scene index or its locator data: the scene tables and their
\* orderings, the per-recording offset tables and the per-scene file maps
\* stay as the constructor left them; only the parsed caches change.
C15_IndexNeverWritten ==
    [][\A d \in DOMAIN adapters :
          /\ d \in DOMAIN adapters'
          /\ adapters'[d].scenes = adapters[d].scenes
          /\ adapters'[d].keys = adapters[d].keys
          /\ adapters'[d].sorted_ids = adapters[d].sorted_ids
          /\ adapters'[d].ids_by_group = adapters[d].ids_by_group
          /\ adapters'[d].offsets_by_track = adapters[d].offsets_by_track
          /\ adapters'[d].scene_files = adapters[d].scene_files]_vars

----------------------------------------------------------------------------
(* The windowing pass of the CPM indexer on its own (SpecWindows): the     *)
(* bucketed timestamps of one sensor and the adapter's gap_s and window_s  *)
(* are the input, kept in on_disk; the windows are the response.           *)

\* Bucketed timestamps (ms) around the gap and the window length.
CpmTimestamps == {0, 100, 200, 1000, 1100, 1200, 50000, 50100}

CpmGapS == {1, Cpm_DEFAULT_GAP_S}

CpmWindowS == {1, 300}

\* CpmWindows with the window length one millisecond longer.
CpmWindowsLate(counts, gap_s, window_s) ==
    CpmWindows(counts, Max(0, gap_s) * 1000, Max(1, window_s) * 1000 + 1)

\* The windows of one sensor under the adapter's gap_s and window_s.
CpmSensorWindows(counts, gap_s, window_s) ==
    CpmWindows(counts, Max(0, gap_s) * 1000, Max(1, window_s) * 1000)

DoIndexSensor ==
    /\ resp = NoResp
    /\ resp' = [op |-> "index_one_csv",
                windows |-> CpmSensorWindows([t \in on_disk.ts |-> 1], on_disk.gap_s,
                                             on_disk.window_s)]
    /\ UNCHANGED storeVars

InitWindows ==
    \E ts \in SUBSET CpmTimestamps, g \in CpmGapS, w \in CpmWindowS :
        InitStoreOver(EmptyDict, [ts |-> ts, gap_s |-> g, window_s |-> w])

NextWindows == DoIndexSensor

SpecWindows == InitWindows /\ [][NextWindows]_vars

----------------------------------------------------------------------------
(* One CPM log of several sensors, indexed (SpecSensors): the rows of the  *)
(* file are the input, kept in on_disk; the response maps each sensor id   *)
(* of the file to its windows.                                             *)

MaxLogRows == 3

\* The sensor column of a row: empty, or the name of an RSU.
RsuValues == {"", "A", "A.1", "A 1"}

LogRows == [rsu : RsuValues, ts : {"0", "50", "120200"}]

DoIndexOneCsv ==
    /\ resp = NoResp
    /\ resp' = [op |-> "index_log",
                sensors |-> CpmIndexOneCsv(on_disk, Cpm_DEFAULT_GAP_S * 1000,
                                           Cpm_DEFAULT_WINDOW_S * 1000,
                                           Cpm_DEFAULT_FRAME_BIN_MS)]
    /\ UNCHANGED storeVars

InitSensors == \E rows \in SeqUpTo(LogRows, MaxLogRows) : InitStoreOver(EmptyDict, rows)

NextSensors == DoIndexOneCsv

SpecSensors == InitSensors /\ [][NextSensors]_vars

\* C17: the windows of a sensor of a multiplexed log depend only on that
\* sensor's rows: they are the windows the same rows give in a log without
\* the rows of the other sensors, whether those carry an empty RSU value or
\* one that differs only in punctuation.
C17_SensorWindowsIndependent ==
    resp.op = "index_log" =>
        \A v \in {on_disk[i].rsu : i \in 1..Len(on_disk)} :
            LET own == SelectSeq(on_disk, LAMBDA row : row.rsu = v)
                sid == CpmSensorOfRow([rsu |-> v, ts |-> "0"])
                alone == CpmIndexOneCsv(own, Cpm_DEFAULT_GAP_S * 1000,
                                        Cpm_DEFAULT_WINDOW_S * 1000, Cpm_DEFAULT_FRAME_BIN_MS)
                Spans(ws) == [k \in 1..Len(ws) |-> <<ws[k].first_ts_ms, ws[k].last_ts_ms>>]
            IN sid \in DOMAIN resp.sensors /\ Spans(resp.sensors[sid]) = Spans(alone[sid])

----------------------------------------------------------------------------
(* The window slicing of the inD index build on its own (SpecSlices): one  *)
(* recording and the adapter's window_s are the input, kept in on_disk;    *)
(* the scene references of the recording are the response.  Here a         *)
(* recording's frame_rate is in hundredths of a frame per second.          *)

SmallMaxFrame == 40

\* Frame rates 25, 29.97, 0.25 and 0.04 per second.
SliceFrameRates == {2500, 2997, 25, 4}

SliceWindowS == {10, InD_DEFAULT_WINDOW_S}

\* Recordings with and without frames; the slow ones are short.
SliceRecordings ==
    {r \in [loc : {"1"}, max_frame : (-1..SmallMaxFrame) \cup {298, 299, 1499, 1500, 2499},
            frame_rate : SliceFrameRates] :
        r.frame_rate >= 100 \/ r.max_frame <= SmallMaxFrame}

\* The window length with the fraction of a frame dropped.
IndWindowFramesFloor(window_s, frame_rate) ==
    Max(1, (window_s * frame_rate) \div 100)

\* max(1, int(round(float(self.window_s) * float(rec.frame_rate))))
IndWindowFrames(window_s, frame_rate) ==
    Max(1, RoundHalfEven(window_s * frame_rate, 100))

DoSliceRecording ==
    /\ resp = NoResp
    /\ resp' = [op |-> "build_index",
                windows |-> IF on_disk.rec.max_frame < 0 THEN <<>>
                            ELSE IndWindows(on_disk.rec, 1,
                                     IndWindowFrames(on_disk.window_s, on_disk.rec.frame_rate),
                                     0, 0)]
    /\ UNCHANGED storeVars

InitSlices ==
    \E rec \in SliceRecordings, w \in SliceWindowS :
        InitStoreOver(EmptyDict, [rec |-> rec, window_s |-> w])

NextSlices == DoSliceRecording

SpecSlices == InitSlices /\ [][NextSlices]_vars

\* The windows in resp are the consecutive windows of W frames over
\* 0..max_frame.
SlicedBy(W) ==
    LET ws == resp.windows
        max_frame == on_disk.rec.max_frame
    IN /\ \A k \in 1..Len(ws) :
             /\ ws[k].window_i = k - 1
             /\ ws[k].frame_start = (k - 1) * W
             /\ ws[k].frame_end = Min(max_frame, k * W - 1)
       /\ \A f \in 0..max_frame :
             Cardinality({k \in 1..Len(ws) :
                             ws[k].frame_start <= f /\ f <= ws[k].frame_end}) = 1

\* C18, as stated: every recording is sliced into the consecutive windows
\* of W = round(window_s x frame_rate) frames, window i covering
\* [i*W, min(max_frame, (i+1)*W - 1)], pairwise disjoint and covering each
\* frame 0..max_frame exactly once.
C18_WindowsOfRoundedLength ==
    resp.op = "build_index" =>
        SlicedBy(RoundHalfEven(on_disk.window_s * on_disk.rec.frame_rate, 100))

\* C18, amended: the same with W = max(1, round(window_s x frame_rate)), a
\* window being at least one frame long; max_frame 2499 at 25 frames per
\* second with window_s 60 gives the windows [0, 1499] and [1500, 2499].
C18_WindowsOfAtLeastOneFrame ==
    resp.op = "build_index" =>
        /\ SlicedBy(Max(1, RoundHalfEven(on_disk.window_s * on_disk.rec.frame_rate, 100)))
        /\ (on_disk.rec.max_frame = 2499 /\ on_disk.rec.frame_rate = 2500
                /\ on_disk.window_s = 60)
              => /\ Len(resp.windows) = 2
                 /\ resp.windows[1].frame_start = 0 /\ resp.windows[1].frame_end = 1499
                 /\ resp.windows[2].frame_start = 1500 /\ resp.windows[2].frame_end = 2499

\* The example recording, sliced in two.
C18_Witness ==
    /\ resp.op = "build_index"
    /\ on_disk.rec.max_frame = 2499 /\ on_disk.rec.frame_rate = 2500 /\ on_disk.window_s = 60
    /\ Len(resp.windows) = 2

----------------------------------------------------------------------------
(* What load_scene_bundle reads of the source file of a windowed family    *)
(* (SpecReads): an inD recording of two windows and a CPM log of two       *)
(* windows of one sensor, indexed; each load reports the rows it read off  *)
(* the tracks file or the log, with the frame or bucketed timestamp of     *)
(* each ({} for a row without one), and the range the index recorded for   *)
(* the scene.                                                              *)

\* The range recorded for a scene: the frames of an inD window, the
\* timestamps of a CPM window (its byte offsets are recorded as 0 and 0).
RecordedRange(a, scene_id) ==
    LET ref == a.scenes[AllSplit][scene_id]
    IN IF a.family = "ind" THEN <<ref.frame_start, ref.frame_end>>
       ELSE <<ref.window.start_ms, ref.window.end_ms>>

\* InDAdapter.load_scene_bundle: the scan of _ensure_offsets reads every
\* row when the recording has no offsets yet; then the segment of each
\* active track is read from its start offset to its end offset.
IndRowsRead(a, scene_id, disk) ==
    LET ref == a.scenes[AllSplit][scene_id]
        rows == disk.tracks.rows
        eo == IndEnsureOffsets(a, ref.rec, disk.tracks)
        offsets == eo.adapter.offsets_by_track[ref.rec]
        active == ActiveTracks(ref)
        scanned == IF ref.rec \in DOMAIN a.offsets_by_track THEN {} ELSE 1..Len(rows)
        segments == UNION {offsets[active[i].track_id][1] ..
                               Min(Len(rows), offsets[active[i].track_id][2] - 1) :
                           i \in {j \in 1..Len(active) : active[j].track_id \in DOMAIN offsets}}
    IN IF disk.tracks.state # "ok" THEN {}
       ELSE {[row |-> i, key |-> AsInt(rows[i].frame)] : i \in scanned \cup segments}

\* CpmObjectsAdapter.load_scene_bundle: the reader is iterated to its end
\* and each row is kept or skipped after it is read.
CpmRowsRead(a, scene_id, disk) ==
    LET rows == disk.log.rows
        key(row) == IF row.ts \notin DOMAIN AsIntMs THEN {}
                    ELSE {BucketTsMs(AsIntMs[row.ts], Cpm_DEFAULT_FRAME_BIN_MS)}
    IN IF disk.log.state # "ok" THEN {}
       ELSE {[row |-> i, key |-> key(rows[i])] : i \in 1..Len(rows)}

RowsRead(a, scene_id, disk) ==
    IF a.family = "ind" THEN IndRowsRead(a, scene_id, disk)
    ELSE CpmRowsRead(a, scene_id, disk)

DoLoadWindow(d, scene_id, disk) ==
    /\ d \in DOMAIN adapters
    /\ LET out == LoadSceneBundle(adapters[d], AllSplit, scene_id, disk)
       IN /\ adapters' = [adapters EXCEPT ![d] = out.adapter]
          /\ resp' = [rows_read |-> RowsRead(adapters[d], scene_id, disk),
                      range |-> RecordedRange(adapters[d], scene_id)]
                     @@ [out.resp EXCEPT !.dataset_id = d]
    /\ UNCHANGED <<specs, adapter_errors, adapter_lock, pc, req, ret, builds, returned,
                   on_disk>>

WindowedFamilies == {"ind", "cpm-objects"}

\* A recording of frames 0..1500 (windows [0, 1499] and [1500, 1500]); a log
\* of one sensor with rows more than gap_s apart.
ReadInputs(family) ==
    IF family = "ind"
    THEN {[io_error |-> FALSE, source |-> "dirs",
           data |-> <<[loc |-> "1", max_frame |-> 1500, frame_rate |-> 25]>>]}
    ELSE {[io_error |-> FALSE, source |-> "dirs",
           data |-> <<[rsu |-> "", ts |-> "0"], [rsu |-> "", ts |-> "120200"]>>]}

InitReads == \E f \in WindowedFamilies : InitStoreWith("a" :> f)

ReadBuild(t) ==
    /\ pc[t] = "build"
    /\ \E inp \in ReadInputs(specs[req[t]]) : Build(t, inp)

NextReads ==
    \/ \E d \in DatasetIds : Call(1, d)
    \/ Enter(1)
    \/ ReadBuild(1)
    \/ \E d \in DOMAIN adapters :
          /\ pc[1] = "idle"
          /\ \E sid \in AllSceneIds(adapters[d]),
                disk \in SceneDisks(adapters[d].family, MaxFileRows) :
                DoLoadWindow(d, sid, disk)

SpecReads == InitReads /\ [][NextReads]_vars

\* C19: a load_scene_bundle of an inD or CPM scene reads only rows of the
\* source file that lie in the range the index recorded for the scene's
\* window: no row it reads carries a frame or timestamp outside the range.
C19_ReadsOnlyRecordedRange ==
    (resp.op = "load_scene_bundle" /\ "rows_read" \in DOMAIN resp) =>
        \A r \in resp.rows_read :
            \A k \in r.key : resp.range[1] <= k /\ k <= resp.range[2]

----------------------------------------------------------------------------
(* _LRUCache on its own (SpecLru): get and set calls in any order on a     *)
(* cache of LruCapacity items.  on_disk holds the cache (least recently    *)
(* used first, as the OrderedDict) and, for the properties, used: the keys *)
(* ever used, in the order of their last use.                              *)

LruCapacity == 3

LruKeys == 1..(LruCapacity + 1)

LruValues == {1, 2}

LruKeysOf(c) == {c[i].key : i \in 1..Len(c)}

\* The use of a key: it becomes the most recently used one.
Used(used, key) == Append(SelectSeq(used, LAMBDA k : k # key), key)

\* A get that leaves the order of the entries alone.
LruGetInPlace(c, key) == c

\* _LRUCache.get: None on a miss; on a hit the entry moves to the end.
LruGetOrMiss(c, key) == IF LruHas(c, key) THEN LruGet(c, key) ELSE c

DoLruGet(key) ==
    /\ on_disk' = [cache |-> LruGetOrMiss(on_disk.cache, key),
                   used |-> IF LruHas(on_disk.cache, key) THEN Used(on_disk.used, key)
                            ELSE on_disk.used]
    /\ resp' = [op |-> "get", key |-> key,
                val |-> IF LruHas(on_disk.cache, key) THEN {LruVal(on_disk.cache, key)}
                        ELSE {}]
    /\ UNCHANGED <<specs, adapters, adapter_errors, adapter_lock, pc, req, ret, builds,
                   returned>>

DoLruSet(key, val) ==
    /\ on_disk' = [cache |-> LruSet(on_disk.cache, key, val, LruCapacity),
                   used |-> Used(on_disk.used, key)]
    /\ resp' = [op |-> "set", key |-> key, val |-> {val}]
    /\ UNCHANGED <<specs, adapters, adapter_errors, adapter_lock, pc, req, ret, builds,
                   returned>>

InitLru == InitStoreOver(EmptyDict, [cache |-> <<>>, used |-> <<>>])

NextLru ==
    \/ \E key \in LruKeys : DoLruGet(key)
    \/ \E key \in LruKeys, val \in LruValues : DoLruSet(key, val)

SpecLru == InitLru /\ [][NextLru]_vars

\* The key of the cache whose last use lies furthest back.
LeastRecentlyUsed(c, used) ==
    LET at(k) == CHOOSE i \in 1..Len(used) : used[i] = k
    IN CHOOSE k \in LruKeysOf(c) : \A j \in LruKeysOf(c) : at(k) <= at(j)

\* C20: after any sequence of get and set calls the cache holds at most
\* max_items entries; a get removes nothing; a set removes an entry only
\* when it overflows the capacity, and then exactly the least recently used
\* one, a get hit and a set both counting as a use; the entry just set
\* stays in the cache.
C20_EvictsLeastRecentlyUsed ==
    [][LET c == on_disk.cache
           d == on_disk'.cache
           gone == LruKeysOf(c) \ LruKeysOf(d)
       IN /\ Len(d) <= LruCapacity
          /\ Cardinality(LruKeysOf(d)) = Len(d)
          /\ resp'.op = "get" =>
                /\ gone = {} /\ LruKeysOf(d) = LruKeysOf(c)
                /\ (resp'.val # {}) = (resp'.key \in LruKeysOf(c))
          /\ resp'.op = "set" =>
                /\ LruHas(d, resp'.key) /\ {LruVal(d, resp'.key)} = resp'.val
                /\ resp'.key \notin gone
                /\ LruKeysOf(d) = (LruKeysOf(c) \cup {resp'.key}) \ gone
                /\ IF Cardinality(LruKeysOf(c) \cup {resp'.key}) > LruCapacity
                   THEN gone = {LeastRecentlyUsed(c, on_disk.used)}
                   ELSE gone = {}]_vars

\* A set has just overflowed the full cache: the key used longest ago is
\* gone, the others and the key just set are kept.
C20_Witness ==
    /\ resp.op = "set"
    /\ Len(on_disk.used) = LruCapacity + 1
    /\ Len(on_disk.cache) = LruCapacity
    /\ on_disk.used[1] \notin LruKeysOf(on_disk.cache)
    /\ on_disk.cache[LruCapacity].key = resp.key

----------------------------------------------------------------------------
(* _LRUCache under concurrent requests (SpecLruThreads).  The handler      *)
(* threads of the ThreadingHTTPServer share an adapter and its parsed-CSV  *)
(* cache; _LRUCache takes no lock, so a thread may be preempted between    *)
(* two calls on the OrderedDict.  on_disk holds the cache and the key each *)
(* thread has in hand; pc[t] is the call thread t makes next.              *)

\* self._d[key] = value: a new key goes to the end, a known one keeps its
\* place.
LruStore(c, key, val) ==
    IF LruHas(c, key) THEN [i \in 1..Len(c) |-> IF c[i].key = key THEN [c[i] EXCEPT !.val = val]
                                                ELSE c[i]]
    ELSE Append(c, [key |-> key, val |-> val])

\* self._d.move_to_end(key), for a key of the dict.
LruMoveToEnd(c, key) == LruGet(c, key)

\* self._d.popitem(last=False)
LruPopOldest(c) == Tail(c)

ThreadVars == <<specs, adapters, adapter_errors, adapter_lock, req, ret, builds, returned>>

\* get: v = self._d.get(key); a miss returns None.
LruLookUp(t, key) ==
    /\ pc[t] = "idle"
    /\ IF LruHas(on_disk.cache, key)
       THEN /\ pc' = [pc EXCEPT ![t] = "get_move"]
            /\ on_disk' = [on_disk EXCEPT !.key[t] = key]
            /\ UNCHANGED resp
       ELSE /\ resp' = [op |-> "get", thread |-> t, key |-> key, raised |-> "none"]
            /\ UNCHANGED <<pc, on_disk>>
    /\ UNCHANGED ThreadVars

\* get: self._d.move_to_end(key) raises KeyError for a key no longer there.
LruReorder(t) ==
    /\ pc[t] = "get_move"
    /\ pc' = [pc EXCEPT ![t] = "idle"]
    /\ IF LruHas(on_disk.cache, on_disk.key[t])
       THEN /\ on_disk' = [on_disk EXCEPT !.cache = LruMoveToEnd(@, on_disk.key[t])]
            /\ resp' = [op |-> "get", thread |-> t, key |-> on_disk.key[t],
                        raised |-> "none"]
       ELSE /\ resp' = [op |-> "get", thread |-> t, key |-> on_disk.key[t],
                        raised |-> "KeyError"]
            /\ UNCHANGED on_disk
    /\ UNCHANGED ThreadVars

\* set: self._d[key] = value
LruInsert(t, key) ==
    /\ pc[t] = "idle"
    /\ pc' = [pc EXCEPT ![t] = "set_move"]
    /\ on_disk' = [on_disk EXCEPT !.cache = LruStore(@, key, 1), !.key[t] = key]
    /\ UNCHANGED resp
    /\ UNCHANGED ThreadVars

\* set: self._d.move_to_end(key)
LruSetMove(t) ==
    /\ pc[t] = "set_move"
    /\ IF LruHas(on_disk.cache, on_disk.key[t])
       THEN /\ pc' = [pc EXCEPT ![t] = "set_evict"]
            /\ on_disk' = [on_disk EXCEPT !.cache = LruMoveToEnd(@, on_disk.key[t])]
            /\ UNCHANGED resp
       ELSE /\ pc' = [pc EXCEPT ![t] = "idle"]
            /\ resp' = [op |-> "set", thread |-> t, key |-> on_disk.key[t],
                        raised |-> "KeyError"]
            /\ UNCHANGED on_disk
    /\ UNCHANGED ThreadVars

\* set: while len(self._d) > self.max_items: self._d.popitem(last=False)
LruEvict(t) ==
    /\ pc[t] = "set_evict"
    /\ IF Len(on_disk.cache) > LruCapacity
       THEN /\ on_disk' = [on_disk EXCEPT !.cache = LruPopOldest(@)]
            /\ UNCHANGED <<pc, resp>>
       ELSE /\ pc' = [pc EXCEPT ![t] = "idle"]
            /\ resp' = [op |-> "set", thread |-> t, key |-> on_disk.key[t],
                        raised |-> "none"]
            /\ UNCHANGED on_disk
    /\ UNCHANGED ThreadVars

InitLruThreads ==
    InitStoreOver(EmptyDict, [cache |-> <<>>, key |-> [t \in Threads |-> 0]])

NextLruThreads ==
    \E t \in Threads :
        \/ \E key \in LruKeys : LruLookUp(t, key)
        \/ LruReorder(t)
        \/ \E key \in LruKeys : LruInsert(t, key)
        \/ LruSetMove(t)
        \/ LruEvict(t)

SpecLruThreads == InitLruThreads /\ [][NextLruThreads]_vars

\* C21: the lookup-and-reorder of a get and the insert-and-evict of a set
\* on the parsed-CSV cache are atomic with respect to one another: under
\* any interleaving of the requests' threads no get or set fails because
\* another thread evicted or moved the entry in between.
C21_NoRequestFails ==
    resp.op \in {"get", "set"} => resp.raised = "none"

----------------------------------------------------------------------------
(* Map clipping on its own (SpecClip): the lanes of a parsed map, the clip *)
(* extent, max_lanes and the focus point ({} when none is given) are the   *)
(* input, kept in on_disk; the response lists the kept lanes.  A bounding  *)
(* box is [min_x, min_y, max_x, max_y] over the integers; a lane is [id,   *)
(* bbox].                                                                  *)

Box(min_x, min_y, max_x, max_y) ==
    [min_x |-> min_x, min_y |-> min_y, max_x |-> max_x, max_y |-> max_y]

\* bbox_intersects
BboxIntersects(a, b) ==
    ~(a.max_x < b.min_x \/ a.min_x > b.max_x \/ a.max_y < b.min_y \/ a.min_y > b.max_y)

\* dist2 of _clip_map_features, times four: the squared distance of the
\* centre of the lane's box to (cx, cy), both given doubled.
LaneDist2(lane, cx2, cy2) ==
    LET dx == (lane.bbox.min_x + lane.bbox.max_x) - cx2
        dy == (lane.bbox.min_y + lane.bbox.max_y) - cy2
    IN dx * dx + dy * dy

\* The centre the distances are taken from, doubled: the focus point, or
\* the centre of the extent.
ClipCentre2(extent, focus_xy) ==
    IF focus_xy # {} THEN LET f == CHOOSE p \in focus_xy : TRUE IN <<2 * f[1], 2 * f[2]>>
    ELSE <<extent.min_x + extent.max_x, extent.min_y + extent.max_y>>

\* list.sort(key=dist2): stable, equal keys keep their order.
SortLanesByDist(lanes, c2) ==
    LET d(i) == LaneDist2(lanes[i], c2[1], c2[2])
        rank(i) == Cardinality({j \in 1..Len(lanes) :
                                   d(j) < d(i) \/ (d(j) = d(i) /\ j <= i)})
    IN [r \in 1..Len(lanes) |-> lanes[CHOOSE i \in 1..Len(lanes) : rank(i) = r]]

\* The clipping with the lanes left in file order.
ClipFirstLanes(lanes, extent, max_lanes, focus_xy) ==
    LET hit == SelectSeq(lanes, LAMBDA l : BboxIntersects(l.bbox, extent))
    IN IF max_lanes # 0 /\ Len(hit) > max_lanes
       THEN [lanes |-> SubSeq(hit, 1, max_lanes), lanes_truncated |-> TRUE]
       ELSE [lanes |-> hit, lanes_truncated |-> FALSE]

\* V2XTrajAdapter._clip_map_features, InDAdapter._clip_lanelet_map and
\* SinDAdapter._clip_lanelet_map: the lanes kept and lanes_truncated.
ClipMapFeatures(lanes, extent, max_lanes, focus_xy) ==
    LET hit == SelectSeq(lanes, LAMBDA l : BboxIntersects(l.bbox, extent))
    IN IF max_lanes # 0 /\ Len(hit) > max_lanes
       THEN [lanes |-> SubSeq(SortLanesByDist(hit, ClipCentre2(extent, focus_xy)),
                              1, max_lanes),
             lanes_truncated |-> TRUE]
       ELSE [lanes |-> hit, lanes_truncated |-> FALSE]

MaxMapLanes == 3

\* Boxes of lanes at 1, 5, 10 and 20 along the x axis, and one off it.
LaneBoxes == {Box(1, 0, 1, 0), Box(5, 0, 5, 0), Box(10, 0, 10, 0), Box(20, 0, 20, 0),
              Box(3, 2, 5, 4)}

ClipExtent == Box(0, -4, 12, 4)

ClipFocus == {{}, {<<0, 0>>}, {<<10, 0>>}}

ClipMaxLanes == {1, 2}

\* The lanes of a map, numbered in file order.
MapLanes ==
    {[i \in 1..Len(bs) |-> [id |-> i, bbox |-> bs[i]]] : bs \in SeqUpTo(LaneBoxes, MaxMapLanes)}

DoClipMap ==
    /\ resp = NoResp
    /\ resp' = [op |-> "clip_map"]
               @@ ClipMapFeatures(on_disk.lanes, ClipExtent, on_disk.max_lanes, on_disk.focus)
    /\ UNCHANGED storeVars

InitClip ==
    \E lanes \in MapLanes, n \in ClipMaxLanes, f \in ClipFocus :
        InitStoreOver(EmptyDict, [lanes |-> lanes, max_lanes |-> n, focus |-> f])

NextClip == DoClipMap

SpecClip == InitClip /\ [][NextClip]_vars

----------------------------------------------------------------------------
(* The checks of a bundle's scene extent against the bounding box of its   *)
(* map (SpecMapCheck): the family, the scene extent and the map's box are  *)
(* the input, kept in on_disk; the response carries the warnings the map   *)
(* section of load_scene_bundle appends for a map that was loaded.         *)

\* Whether the centre of the extent lies in the box (coordinates doubled).
CentreInBox(extent, b) ==
    /\ 2 * b.min_x <= extent.min_x + extent.max_x
    /\ extent.min_x + extent.max_x <= 2 * b.max_x
    /\ 2 * b.min_y <= extent.min_y + extent.max_y
    /\ extent.min_y + extent.max_y <= 2 * b.max_y

\* The map section of load_scene_bundle for a parsed map with a valid box:
\* both V2X families check the extent and its centre against the box; the
\* inD and SinD sections clip the map and append nothing.
MapBboxWarnings(family, extent, map_bbox) ==
    IF family \in {"v2x-traj", "v2x-seq"}
    THEN Warn(~BboxIntersects(map_bbox, extent), "scene_outside_map_bbox")
         \o Warn(~CentreInBox(extent, map_bbox), "scene_center_outside_map_bbox")
    ELSE <<>>

MapFamilies == {"v2x-traj", "v2x-seq", "ind", "sind"}

MapBbox == Box(0, 0, 4, 4)

SceneExtents ==
    {b \in [min_x : {-4, 0, 2, 6}, min_y : {-4, 0, 2, 6},
            max_x : {-4, 0, 2, 6}, max_y : {-4, 0, 2, 6}] :
        b.min_x <= b.max_x /\ b.min_y <= b.max_y}

DoCheckMap ==
    /\ resp = NoResp
    /\ resp' = [op |-> "map_check", raised |-> "none",
                warnings |-> MapBboxWarnings(on_disk.family, on_disk.extent, MapBbox)]
    /\ UNCHANGED storeVars

InitMapCheck ==
    \E f \in MapFamilies, e \in SceneExtents :
        InitStoreOver(EmptyDict, [family |-> f, extent |-> e])

NextMapCheck == DoCheckMap

SpecMapCheck == InitMapCheck /\ [][NextMapCheck]_vars

\* C23: for each of V2X-Traj, V2X-Seq, inD and SinD, a bundle whose scene
\* extent does not intersect the map's bounding box, or whose scene centre
\* lies outside it, is returned with a warning for the failed check, and a
\* bundle passing both checks carries neither warning.
C23_MapChecksWarn ==
    resp.op = "map_check" =>
        /\ resp.raised = "none"
        /\ ("scene_outside_map_bbox" \in Range(resp.warnings))
              = ~BboxIntersects(MapBbox, on_disk.extent)
        /\ ("scene_center_outside_map_bbox" \in Range(resp.warnings))
              = ~CentreInBox(on_disk.extent, MapBbox)

----------------------------------------------------------------------------
(* Numeric CSV fields (SpecNumeric).  A row here is [count, num], the      *)
(* texts of an integer column and of a float column; the rows of a file    *)
(* are the input, kept in on_disk.  Read as a precomputed scene table,     *)
(* count is the rows column and num the min_ts column; read as a           *)
(* trajectory file, num is the x column.  A parsed number is {n}, None {}. *)

MaxNumericRows == 2

\* float(s) of the texts of the model, in tenths; "nan" and "inf" are
\* floats, any other text raises ValueError.
FloatOf == [s \in {"3", "0.5", "nan", "inf"} |->
               IF s = "3" THEN [kind |-> "finite", v |-> 30]
               ELSE IF s = "0.5" THEN [kind |-> "finite", v |-> 5]
               ELSE [kind |-> s, v |-> 0]]

\* safe_float: None for an empty, non-numeric, NaN or infinite text.
SafeFloat(s) ==
    IF s = "" \/ s \notin DOMAIN FloatOf THEN {}
    ELSE IF FloatOf[s].kind # "finite" THEN {}
    ELSE {FloatOf[s].v}

\* int(text or 0) of _load_scenes_csv: 0 for an empty text, the number of a
\* decimal integer, ValueError otherwise.
IntOrZero(s) ==
    IF s = "" THEN [raised |-> "none", v |-> {0}]
    ELSE IF s = "3" THEN [raised |-> "none", v |-> {3}]
    ELSE [raised |-> "ValueError", v |-> {}]

NumericRows == [count : {"3", "", "abc"}, num : {"0.5", "", "abc", "nan", "inf"}]

\* V2XTrajAdapter._load_scenes_csv over the rows from i on: the stats of
\* each row, up to the row whose conversion raises.
RECURSIVE LoadSceneStats(_, _, _)
LoadSceneStats(rows, i, out) ==
    IF i > Len(rows) THEN [raised |-> "none", records |-> out]
    ELSE LET n == IntOrZero(rows[i].count)
         IN IF n.raised # "none" THEN [raised |-> n.raised, records |-> out]
            ELSE LoadSceneStats(rows, i + 1,
                     Append(out, [count |-> n.v, num |-> SafeFloat(rows[i].num)]))

\* V2XTrajAdapter._load_traj_csv: the records of the rows.
LoadTrajRecords(rows) ==
    [raised |-> "none",
     records |-> [i \in 1..Len(rows) |-> [num |-> SafeFloat(rows[i].num)]]]

DoLoadScenesTable ==
    /\ resp = NoResp
    /\ resp' = [op |-> "load_scenes_csv"] @@ LoadSceneStats(on_disk, 1, <<>>)
    /\ UNCHANGED storeVars

DoLoadTrajRows ==
    /\ resp = NoResp
    /\ resp' = [op |-> "load_traj_csv"] @@ LoadTrajRecords(on_disk)
    /\ UNCHANGED storeVars

InitNumeric == \E rows \in SeqUpTo(NumericRows, MaxNumericRows) : InitStoreOver(EmptyDict, rows)

NextNumeric == DoLoadScenesTable \/ DoLoadTrajRows

SpecNumeric == InitNumeric /\ [][NextNumeric]_vars

\* C24: a numeric field that cannot be parsed (empty, non-numeric, NaN or
\* infinite) is None in the record, never 0, and does not stop the scan:
\* every row yields its record with its other fields, when the scene table
\* is read for the index and when a trajectory file is read for a bundle.
C24_UnparsableIsNone ==
    resp.op \in {"load_scenes_csv", "load_traj_csv"} =>
        /\ resp.raised = "none"
        /\ Len(resp.records) = Len(on_disk)
        /\ \A i \in 1..Len(resp.records) :
              /\ resp.records[i].num
                    = (IF on_disk[i].num = "0.5" THEN {5} ELSE {})
              /\ resp.op = "load_scenes_csv" =>
                    resp.records[i].count = (IF on_disk[i].count = "3" THEN {3} ELSE {})

----------------------------------------------------------------------------
(* Resolving the logical field generationTime_ms to a column of a CPM log  *)
(* (SpecFields): the header of the file and the column the dataset's       *)
(* column_map names for the field ({} when it names none) are the input,   *)
(* kept in on_disk; the response is the column chosen, {} when none.       *)

MaxColumns == 3

ColumnNames == {"generationTime_ms", "GenerationTime-MS", "timestamp_ms", "gen_time_ms",
                "my_time"}

\* CpmObjectsAdapter._norm_col: lower case, letters and digits only.
NormCol ==
    [c \in ColumnNames \cup {"generation_time_ms", "generationtime", "other"} |->
        CASE c \in {"generationTime_ms", "GenerationTime-MS", "generation_time_ms"}
                 -> "generationtimems"
          [] c = "generationtime" -> "generationtime"
          [] c = "timestamp_ms" -> "timestampms"
          [] c = "gen_time_ms" -> "gentimems"
          [] c = "my_time" -> "mytime"
          [] OTHER -> "other"]

\* _CPM_ALIASES["generationTime_ms"]
TimeAliases == <<"generationTime_ms", "generation_time_ms", "generationtime", "timestamp_ms",
                 "gen_time_ms">>

\* by_norm.get(n): the first column of the header with the normalised name.
ByNorm(fields, n) ==
    LET hits == {i \in 1..Len(fields) : NormCol[fields[i]] = n}
    IN IF hits = {} THEN {} ELSE {fields[CHOOSE i \in hits : \A j \in hits : i <= j]}

\* CpmObjectsAdapter._resolve_field_map for the field: the canonical column
\* when the file has it, else the column of the column_map when the file
\* has it, else the first alias found.
ResolveFieldMap(fields, explicit) ==
    LET canonical == ByNorm(fields, NormCol["generationTime_ms"])
        named == explicit \cap Range(fields)
        hits == {k \in 1..Len(TimeAliases) : ByNorm(fields, NormCol[TimeAliases[k]]) # {}}
    IN IF canonical # {} THEN canonical
       ELSE IF named # {} THEN named
       ELSE IF hits = {} THEN {}
       ELSE ByNorm(fields, NormCol[TimeAliases[CHOOSE k \in hits : \A h \in hits : k <= h]])

Headers ==
    {h \in SeqUpTo(ColumnNames, MaxColumns) : \A i, j \in 1..Len(h) : i # j => h[i] # h[j]}

ColumnOverrides == {{}, {"my_time"}, {"timestamp_ms"}, {"other"}}

DoResolveField ==
    /\ resp = NoResp
    /\ resp' = [op |-> "resolve_field",
                column |-> ResolveFieldMap(on_disk.fields, on_disk.explicit)]
    /\ UNCHANGED storeVars

InitFields ==
    \E h \in Headers, e \in ColumnOverrides :
        InitStoreOver(EmptyDict, [fields |-> h, explicit |-> e])

NextFields == DoResolveField

SpecFields == InitFields /\ [][NextFields]_vars

\* C25: a logical field resolves to the column of the explicit override
\* when the file has it, else to the canonical column (names compared
\* without case and punctuation), else to the first alias found; a file
\* with both the canonical column and the override column resolves to the
\* override column.
C25_OverrideFirst ==
    resp.op = "resolve_field" =>
        LET fields == on_disk.fields
            named == on_disk.explicit \cap Range(fields)
            canon == {i \in 1..Len(fields) : NormCol[fields[i]] = "generationtimems"}
            FirstOf(S) == fields[CHOOSE i \in S : \A j \in S : i <= j]
            alias == {i \in 1..Len(fields) : NormCol[fields[i]] \in {"timestampms", "gentimems"}}
        IN IF named # {} THEN resp.column = named
           ELSE IF canon # {} THEN resp.column = {FirstOf(canon)}
           ELSE IF alias # {}
                THEN resp.column
                        = (IF "timestamp_ms" \in Range(fields) THEN {"timestamp_ms"}
                           ELSE {"gen_time_ms"})
           ELSE resp.column = {}

----------------------------------------------------------------------------
(* Bounding boxes (SpecBbox): three boxes, each grown by bbox_update from  *)
(* bbox_init over at most two points, are kept in on_disk; a response is   *)
(* their union from bbox_init in some order or grouping, or the            *)
(* intersection test of two of them.                                       *)

MaxCoord == 1

\* float("inf"), above every coordinate of the model; -Inf is float("-inf").
Inf == 1000

\* bbox_init
BboxInit == Box(Inf, Inf, -Inf, -Inf)

\* bbox_update with "elif" for the upper bounds.
BboxUpdateElse(b, x, y) ==
    Box(IF x < b.min_x THEN x ELSE b.min_x,
        IF y < b.min_y THEN y ELSE b.min_y,
        IF x < b.min_x THEN b.max_x ELSE IF x > b.max_x THEN x ELSE b.max_x,
        IF y < b.min_y THEN b.max_y ELSE IF y > b.max_y THEN y ELSE b.max_y)

\* bbox_update
BboxUpdate(b, x, y) ==
    Box(IF x < b.min_x THEN x ELSE b.min_x,
        IF y < b.min_y THEN y ELSE b.min_y,
        IF x > b.max_x THEN x ELSE b.max_x,
        IF y > b.max_y THEN y ELSE b.max_y)

\* bbox_is_valid
BboxIsValid(b) == b.min_x # Inf /\ b.max_x # -Inf

\* bbox_update_from_bbox: dst after the call.
BboxUpdateFromBbox(dst, src) ==
    IF ~BboxIsValid(src) THEN dst
    ELSE BboxUpdate(BboxUpdate(dst, src.min_x, src.min_y), src.max_x, src.max_y)

\* The boxes a feature can have: bbox_init grown over no, one or two points.
Coords == 0..MaxCoord

FeatureBoxes ==
    {BboxInit}
    \cup {BboxUpdate(BboxUpdate(BboxInit, p[1], p[2]), q[1], q[2]) :
            p \in Coords \X Coords, q \in Coords \X Coords}

BoxOrders == {o \in [1..3 -> 1..3] : \A i, j \in 1..3 : i # j => o[i] # o[j]}

\* dst = bbox_init, then bbox_update_from_bbox(dst, b) for the three boxes
\* in the order o.
DoUniteInOrder(o) ==
    /\ resp = NoResp
    /\ LET b == on_disk.boxes
       IN resp' = [op |-> "union", order |-> o, grouped |-> FALSE,
                   box |-> BboxUpdateFromBbox(
                               BboxUpdateFromBbox(BboxUpdateFromBbox(BboxInit, b[o[1]]), b[o[2]]),
                               b[o[3]])]
    /\ UNCHANGED storeVars

\* The last two boxes of the order are united into a box of their own,
\* which is then united into the union of the first.
DoUniteGrouped(o) ==
    /\ resp = NoResp
    /\ LET b == on_disk.boxes
           tail == BboxUpdateFromBbox(BboxUpdateFromBbox(BboxInit, b[o[2]]), b[o[3]])
       IN resp' = [op |-> "union", order |-> o, grouped |-> TRUE,
                   box |-> BboxUpdateFromBbox(BboxUpdateFromBbox(BboxInit, b[o[1]]), tail)]
    /\ UNCHANGED storeVars

\* bbox_update_from_bbox(dst, src) with the first box as dst.
DoUniteInto(i) ==
    /\ resp = NoResp
    /\ resp' = [op |-> "unite", dst |-> on_disk.boxes[1], src |-> on_disk.boxes[i],
                box |-> BboxUpdateFromBbox(on_disk.boxes[1], on_disk.boxes[i])]
    /\ UNCHANGED storeVars

DoIntersect(i, j) ==
    /\ resp = NoResp
    /\ resp' = [op |-> "intersects", a |-> on_disk.boxes[i], b |-> on_disk.boxes[j],
                value |-> BboxIntersects(on_disk.boxes[i], on_disk.boxes[j])]
    /\ UNCHANGED storeVars

InitBbox ==
    \E a, b, c \in FeatureBoxes : InitStoreOver(EmptyDict, [boxes |-> <<a, b, c>>])

NextBbox ==
    \/ \E o \in BoxOrders : DoUniteInOrder(o)
    \/ \E o \in BoxOrders : DoUniteGrouped(o)
    \/ \E i \in 2..3 : DoUniteInto(i)
    \/ \E i, j \in 1..3 : DoIntersect(i, j)

SpecBbox == InitBbox /\ [][NextBbox]_vars

\* C26: the union of boxes from bbox_init is the same box in every order
\* and grouping, namely the least box around the valid ones; uniting with
\* an invalid box leaves the destination unchanged; an invalid box
\* intersects no box.
C26_UnionOrderFree ==
    /\ resp.op = "union" =>
          LET valid == {i \in 1..3 : BboxIsValid(on_disk.boxes[i])}
              Least(S) == CHOOSE m \in S : \A n \in S : m <= n
              Greatest(S) == CHOOSE m \in S : \A n \in S : m >= n
          IN resp.box = Box(Least({Inf} \cup {on_disk.boxes[i].min_x : i \in valid}),
                            Least({Inf} \cup {on_disk.boxes[i].min_y : i \in valid}),
                            Greatest({-Inf} \cup {on_disk.boxes[i].max_x : i \in valid}),
                            Greatest({-Inf} \cup {on_disk.boxes[i].max_y : i \in valid}))
    /\ (resp.op = "unite" /\ ~BboxIsValid(resp.src)) => resp.box = resp.dst
    /\ (resp.op = "intersects" /\ (~BboxIsValid(resp.a) \/ ~BboxIsValid(resp.b)))
          => ~resp.value

\* Three different valid boxes united grouped, in an order other than the
\* stored one, into a box none of them equals.
C26_Witness ==
    /\ resp.op = "union"
    /\ resp.grouped
    /\ resp.order = <<3, 1, 2>>
    /\ \A i \in 1..3 : BboxIsValid(on_disk.boxes[i]) /\ on_disk.boxes[i] # resp.box
    /\ on_disk.boxes[1] # on_disk.boxes[2]
    /\ on_disk.boxes[2] # on_disk.boxes[3]
    /\ on_disk.boxes[1] # on_disk.boxes[3]

----------------------------------------------------------------------------
(* Downsampling polylines (SpecPolyline): a list of map points and a step  *)
(* are kept in on_disk.  An entry of the list is 0 when it is no point     *)
(* (parse_point_xy gives None) and a positive number naming the point      *)
(* otherwise; equal numbers are equal points.  The response is the         *)
(* polyline a parser keeps.                                                *)

MaxPoints == 13

\* The polylines at most this long are kept whole: max(12, 2 * step).
KeepWhole(step) == Max(12, 2 * step)

\* list(range(0, len(points), step)) with the last index appended, as
\* positions from 1.
SampledIdxs(n, step) ==
    SortedInts({i \in 1..n : (i - 1) % step = 0} \cup {n})

\* parse_polyline of _load_map_parsed (HD-map JSON).
ParsePolyline(points, points_step) ==
    LET n == Len(points)
        idxs == IF points_step <= 1 \/ n <= KeepWhole(points_step)
                THEN [i \in 1..n |-> i]
                ELSE SampledIdxs(n, points_step)
        out == SelectSeq([k \in 1..Len(idxs) |-> points[idxs[k]]], LAMBDA e : e # 0)
    IN IF n = 0 THEN <<>>
       ELSE IF Len(out) = 1 /\ n >= 2 /\ points[n] # 0 /\ points[n] # out[1]
            THEN Append(out, points[n])
       ELSE out

\* InDAdapter._downsample_polyline and SinDAdapter._downsample_polyline.
DownsamplePolyline(points, step) ==
    LET n == Len(points)
        s == Max(1, step)
        idxs == SampledIdxs(n, s)
        out == [k \in 1..Len(idxs) |-> points[idxs[k]]]
    IN IF s <= 1 \/ n <= KeepWhole(s) THEN points
       ELSE IF Len(out) < 2 /\ n >= 2 THEN <<points[1], points[n]>>
       ELSE out

PointSteps == {1, 2, 5}

\* Lists of 2 to max_len entries: entry i is the point i or no point, and
\* the last entry of a closed list is the first point again.
PointLists(max_len) ==
    UNION {{[i \in 1..n |-> IF i \in bad THEN 0 ELSE IF closed /\ i = n THEN 1 ELSE i] :
                bad \in SUBSET (1..n), closed \in BOOLEAN} : n \in 2..max_len}

DoParsePolyline ==
    /\ resp = NoResp
    /\ resp' = [op |-> "polyline", parser |-> "hdmap",
                out |-> ParsePolyline(on_disk.points, on_disk.step)]
    /\ UNCHANGED storeVars

\* The lanelet parsers downsample ways whose nodes were all resolved.
DoDownsamplePolyline(family) ==
    /\ resp = NoResp
    /\ \A i \in 1..Len(on_disk.points) : on_disk.points[i] # 0
    /\ resp' = [op |-> "polyline", parser |-> family,
                out |-> DownsamplePolyline(on_disk.points, on_disk.step)]
    /\ UNCHANGED storeVars

InitPolyline ==
    \E p \in PointLists(MaxPoints), s \in PointSteps :
        InitStoreOver(EmptyDict, [points |-> p, step |-> s])

NextPolyline ==
    \/ DoParsePolyline
    \/ \E family \in {"ind", "sind"} : DoDownsamplePolyline(family)

SpecPolyline == InitPolyline /\ [][NextPolyline]_vars

\* The points of the source, in order.
SourcePoints == SelectSeq(on_disk.points, LAMBDA e : e # 0)

\* out[k..] is a subsequence of src[j..]: its points occur there in order.
RECURSIVE IsSubsequenceFrom(_, _, _, _)
IsSubsequenceFrom(out, k, src, j) ==
    IF k > Len(out) THEN TRUE
    ELSE IF j > Len(src) THEN FALSE
    ELSE IF src[j] = out[k] THEN IsSubsequenceFrom(out, k + 1, src, j + 1)
    ELSE IsSubsequenceFrom(out, k, src, j + 1)

KeepsEndpoints(out) ==
    Len(SourcePoints) >= 2 =>
        /\ IsSubsequenceFrom(out, 1, SourcePoints, 1)
        /\ Len(out) >= 1
        /\ out[1] = SourcePoints[1]
        /\ out[Len(out)] = SourcePoints[Len(SourcePoints)]

NeverADot(out) ==
    (\E i, j \in 1..Len(SourcePoints) : SourcePoints[i] # SourcePoints[j]) => Len(out) >= 2

\* C27: downsampling a polyline of at least 2 points with a step >= 1 gives
\* a subsequence of the source that keeps its first and its last point, and
\* keeps at least two points when the
\* source has two distinct points, in the HD-map JSON parser and in both
\* lanelet parsers.
C27_EndpointsKept ==
    resp.op = "polyline" => KeepsEndpoints(resp.out) /\ NeverADot(resp.out)

\* The part of C27 about lines that degenerate to a dot.
C27_NeverADotAlone ==
    resp.op = "polyline" => NeverADot(resp.out)

\* C27 for lists whose entries are all points.
C27_LaneletsOrAllPoints ==
    (resp.op = "polyline" /\ \A i \in 1..Len(on_disk.points) : on_disk.points[i] # 0)
        => KeepsEndpoints(resp.out) /\ NeverADot(resp.out)

----------------------------------------------------------------------------
(* The CPM indexer on the rows of one sensor (SpecPartition): the number   *)
(* of rows the log holds per generation time, the adapter's frame_bin_ms,  *)
(* gap_s and window_s are the input, kept in on_disk; the response is the  *)
(* sensor's windows.                                                       *)

MaxRowsPerTs == 2

\* Generation times (ms) around the bin, the gap and the window length.
GenerationTimes == {0, 40, 100, 950, 1000, 1040, 2500}

FrameBins == {1, Cpm_DEFAULT_FRAME_BIN_MS}

\* A Counter in which every bucketed timestamp counts once.
CpmBucketCountsOnce(rows_at, frame_bin_ms) ==
    LET seen == {t \in DOMAIN rows_at : rows_at[t] > 0}
        B(t) == BucketTsMs(t, frame_bin_ms)
    IN [b \in {B(t) : t \in seen} |-> 1]

\* The sum of f over the set S.
RECURSIVE SumOver(_, _)
SumOver(f, S) ==
    IF S = {} THEN 0
    ELSE LET x == CHOOSE y \in S : TRUE IN f[x] + SumOver(f, S \ {x})

\* per_sensor_ts[sensor_id] of _index_one_csv: the Counter of the rows'
\* bucketed timestamps (ts_b -> number of rows).
CpmBucketCounts(rows_at, frame_bin_ms) ==
    LET seen == {t \in DOMAIN rows_at : rows_at[t] > 0}
        B(t) == BucketTsMs(t, frame_bin_ms)
    IN [b \in {B(t) : t \in seen} |-> SumOver(rows_at, {t \in seen : B(t) = b})]

DoIndexLog ==
    /\ resp = NoResp
    /\ resp' = [op |-> "index_log",
                windows |-> CpmSensorWindows(CpmBucketCounts(on_disk.rows_at, on_disk.bin),
                                             on_disk.gap_s, on_disk.window_s)]
    /\ UNCHANGED storeVars

InitPartition ==
    \E rows_at \in [GenerationTimes -> 0..MaxRowsPerTs], bin \in FrameBins,
       g \in CpmGapS, w \in CpmWindowS :
        InitStoreOver(EmptyDict, [rows_at |-> rows_at, bin |-> bin, gap_s |-> g,
                                  window_s |-> w])

NextPartition == DoIndexLog

SpecPartition == InitPartition /\ [][NextPartition]_vars

\* The sensor's bucketed timestamps.
BucketedTs ==
    {BucketTsMs(t, on_disk.bin) : t \in {x \in GenerationTimes : on_disk.rows_at[x] > 0}}

\* C28: a sensor's windows partition its bucketed timestamps: every window
\* is non-empty, the windows are ordered and disjoint in time (end_ms below
\* the next start_ms), every window has end_ms - start_ms < window_ms and
\* no gap above gap_ms between neighbouring timestamps inside it, and the
\* windows' rows and frames sum to the sensor's number of rows and of
\* distinct bucketed timestamps.
C28_WindowsPartition ==
    resp.op = "index_log" =>
        LET ws == resp.windows
            In(k) == {b \in BucketedTs : ws[k].start_ms <= b /\ b <= ws[k].end_ms}
            RowsIn(k) ==
                SumOver(on_disk.rows_at,
                        {t \in GenerationTimes : BucketTsMs(t, on_disk.bin) \in In(k)})
        IN /\ \A b \in BucketedTs : Cardinality({k \in 1..Len(ws) : b \in In(k)}) = 1
           /\ \A k \in 1..Len(ws) :
                 /\ ws[k].start_ms \in BucketedTs /\ ws[k].end_ms \in BucketedTs
                 /\ ws[k].frames >= 1 /\ ws[k].rows >= 1
                 /\ ws[k].frames = Cardinality(In(k))
                 /\ ws[k].rows = RowsIn(k)
                 /\ k < Len(ws) => ws[k].end_ms < ws[k + 1].start_ms
                 /\ ws[k].end_ms - ws[k].start_ms < on_disk.window_s * 1000
                 /\ \A b \in In(k) :
                       b > ws[k].start_ms =>
                           \E a \in In(k) : a < b /\ b - a <= on_disk.gap_s * 1000
           /\ SumOver([k \in 1..Len(ws) |-> ws[k].rows], 1..Len(ws))
                 = SumOver(on_disk.rows_at, GenerationTimes)
           /\ SumOver([k \in 1..Len(ws) |-> ws[k].frames], 1..Len(ws))
                 = Cardinality(BucketedTs)

\* A log whose rows share buckets, cut into three windows: one closed by
\* its length, one by a gap.
C28_Witness ==
    /\ resp.op = "index_log"
    /\ on_disk.bin = Cpm_DEFAULT_FRAME_BIN_MS /\ on_disk.gap_s = 1 /\ on_disk.window_s = 1
    /\ \A t \in GenerationTimes : on_disk.rows_at[t] = MaxRowsPerTs
    /\ Len(resp.windows) = 3
    /\ resp.windows[1].frames = 3 /\ resp.windows[1].rows = 4 * MaxRowsPerTs
    /\ resp.windows[2].start_ms = 1000 /\ resp.windows[2].rows = 2 * MaxRowsPerTs
    /\ resp.windows[3].start_ms = 2500

----------------------------------------------------------------------------
(* CPM scenes against their windows (SpecCpmScenes): one or two logs that  *)
(* map to the sensor id "base" are the input, kept in on_disk; they are    *)
(* indexed as _build_index does, and a response is what load_scene_bundle  *)
(* counts for one scene, next to the window the index recorded for it.     *)

MaxSceneLogRows == 2

\* _index_one_csv of the i-th log: sensor id -> [file, filter, windows],
\* where filter is the row_filter_value of the sensor, the RSU value of the
\* first row that named the sensor ("" for the sensor of the file itself).
CpmSensorItems(files, i) ==
    LET rows == files[i]
        windows == CpmIndexOneCsv(rows, Cpm_DEFAULT_GAP_S * 1000, Cpm_DEFAULT_WINDOW_S * 1000,
                                  Cpm_DEFAULT_FRAME_BIN_MS)
        FirstRow(sn) == CHOOSE k \in CpmParsedRows(rows) :
                            /\ CpmSensorOfRow(rows[k]) = sn
                            /\ \A j \in CpmParsedRows(rows) :
                                  CpmSensorOfRow(rows[j]) = sn => k <= j
    IN [sn \in DOMAIN windows |->
            [file |-> i, filter |-> rows[FirstRow(sn)].rsu, windows |-> windows[sn]]]

\* self._sensors after _build_index: the items of a later log replace those
\* of an earlier one under the same sensor id.
RECURSIVE CpmSensors(_, _)
CpmSensors(files, n) ==
    IF n = 0 THEN EmptyDict ELSE CpmSensorItems(files, n) @@ CpmSensors(files, n - 1)

\* self._scenes after _build_index, in scene order.
CpmSceneRefs(files) ==
    LET sensors == CpmSensors(files, Len(files))
        flat == SortedFlat(UNION {{<<sn, sensors[sn].windows[wi].first_ts_ms, wi>> :
                                      wi \in 1..Len(sensors[sn].windows)} :
                                  sn \in DOMAIN sensors})
    IN [n \in 1..Len(flat) |->
            [sensor_id |-> flat[n][1], file |-> sensors[flat[n][1]].file,
             filter |-> sensors[flat[n][1]].filter,
             window |-> sensors[flat[n][1]].windows[flat[n][3]]]]

\* The rows load_scene_bundle keeps of the scene's log: those that pass the
\* sensor's row filter, if it has one, and whose bucketed timestamp lies in
\* the window.
CpmWindowRows(files, ref) ==
    LET rows == files[ref.file]
    IN {k \in CpmParsedRows(rows) :
            /\ ref.filter = "" \/ rows[k].rsu = ref.filter
            /\ BucketTsMs(AsIntMs[rows[k].ts], Cpm_DEFAULT_FRAME_BIN_MS) >= ref.window.start_ms
            /\ BucketTsMs(AsIntMs[rows[k].ts], Cpm_DEFAULT_FRAME_BIN_MS) <= ref.window.end_ms}

\* modality_stats.infra of load_scene_bundle for the n-th scene.
DoLoadCpmScene(n) ==
    /\ resp = NoResp
    /\ n \in 1..Len(CpmSceneRefs(on_disk))
    /\ LET ref == CpmSceneRefs(on_disk)[n]
           kept == CpmWindowRows(on_disk, ref)
           ts_list == SortedInts({BucketTsMs(AsIntMs[on_disk[ref.file][k].ts],
                                             Cpm_DEFAULT_FRAME_BIN_MS) : k \in kept})
       IN resp' = [op |-> "cpm_scene", scene |-> n, sensor_id |-> ref.sensor_id,
                   window |-> ref.window, rows |-> Cardinality(kept), ts_list |-> ts_list]
    /\ UNCHANGED storeVars

InitCpmScenes ==
    \E files \in SeqUpTo(SeqUpTo(LogRows, MaxSceneLogRows) \ {<<>>}, 2) \ {<<>>} :
        InitStoreOver(EmptyDict, files)

NextCpmScenes == \E n \in 1..(2 * MaxSceneLogRows) : DoLoadCpmScene(n)

SpecCpmScenes == InitCpmScenes /\ [][NextCpmScenes]_vars

\* C29: what load_scene_bundle materialises for a CPM scene matches the
\* window the index recorded: rows equals the window's rows, the number of
\* frames the window's frames, and the first and last frame timestamps are
\* first_ts_ms and last_ts_ms; also for a log of several sensors, rows with
\* an empty RSU value, and two logs of one sensor id.
C29_BundleMatchesWindow ==
    resp.op = "cpm_scene" =>
        /\ resp.rows = resp.window.rows
        /\ Len(resp.ts_list) = resp.window.frames
        /\ resp.ts_list # <<>>
        /\ resp.ts_list[1] = resp.window.first_ts_ms
        /\ resp.ts_list[Len(resp.ts_list)] = resp.window.last_ts_ms

\* C29 for the logs whose rows all carry the same RSU value.
C29_OneSensorLogs ==
    (resp.op = "cpm_scene"
        /\ \A i, j \in 1..Len(on_disk) : \A k \in 1..Len(on_disk[i]), l \in 1..Len(on_disk[j]) :
              on_disk[i][k].rsu = on_disk[j][l].rsu)
        => C29_BundleMatchesWindow

----------------------------------------------------------------------------
(* The profile store (SpecProfiles).  on_disk is the store's directory:    *)
(* files maps the name of a profile file (without ".json") to the profile  *)
(* it holds, default is default_profile_id of the state file ("" when      *)
(* absent).  A response carries the call, the exception it raised ("" for  *)
(* none) and the directory before the call.                                *)

ProfileIds == {"ab", "a.b", "cd"}

ProfileNames == {"n1", "n2"}

\* _safe_profile_filename without ".json": the id without the characters
\* outside [a-zA-Z0-9_-].
SafeProfileFilename == [pid \in ProfileIds |-> IF pid = "a.b" THEN "ab" ELSE pid]

\* Python's order of the names and of the profile ids.
ProfileStrOrder == <<"a.b", "ab", "cd", "n1", "n2">>

ProfileStrRank(s) == CHOOSE i \in 1..Len(ProfileStrOrder) : ProfileStrOrder[i] = s

\* ProfileStore.list_profiles: the summaries, default first, then by name
\* and profile id.
ListProfiles(disk) ==
    LET summaries == {[profile_id |-> disk.files[fn].profile_id, name |-> disk.files[fn].name,
                       is_default |-> disk.default # ""
                                        /\ disk.files[fn].profile_id = disk.default] :
                      fn \in DOMAIN disk.files}
        Key(x) == <<IF x.is_default THEN 0 ELSE 1, ProfileStrRank(x.name),
                    ProfileStrRank(x.profile_id)>>
        LessEq(x, y) ==
            \/ Key(x)[1] < Key(y)[1]
            \/ Key(x)[1] = Key(y)[1] /\ Key(x)[2] < Key(y)[2]
            \/ Key(x)[1] = Key(y)[1] /\ Key(x)[2] = Key(y)[2] /\ Key(x)[3] <= Key(y)[3]
    IN [i \in 1..Cardinality(summaries) |->
            CHOOSE x \in summaries : Cardinality({y \in summaries : LessEq(y, x)}) = i]

ProfileCall(op, pid, raised) ==
    [op |-> op, profile_id |-> pid, raised |-> raised, before |-> on_disk]

\* ProfileStore.save_profile of a profile with the id pid that validates
\* to the status.
SaveProfile(pid, name, status) ==
    IF status \notin {"ready", "ready_with_warnings"}
    THEN /\ resp' = ProfileCall("save_profile", pid, "ValueError")
         /\ on_disk' = on_disk
    ELSE /\ resp' = ProfileCall("save_profile", pid, "")
         /\ on_disk' =
               [files |-> (SafeProfileFilename[pid] :> [profile_id |-> pid, name |-> name])
                              @@ on_disk.files,
                default |-> IF on_disk.default = "" THEN pid ELSE on_disk.default]

\* ProfileStore.delete_profile
DeleteProfile(pid) ==
    IF pid = ""
    THEN resp' = ProfileCall("delete_profile", pid, "ValueError") /\ on_disk' = on_disk
    ELSE IF SafeProfileFilename[pid] \notin DOMAIN on_disk.files
    THEN resp' = ProfileCall("delete_profile", pid, "KeyError") /\ on_disk' = on_disk
    ELSE LET files == [fn \in DOMAIN on_disk.files \ {SafeProfileFilename[pid]} |->
                           on_disk.files[fn]]
             remaining == ListProfiles([files |-> files, default |-> on_disk.default])
         IN /\ resp' = ProfileCall("delete_profile", pid, "")
            /\ on_disk' =
                  [files |-> files,
                   default |-> IF on_disk.default # "" /\ on_disk.default = pid
                               THEN IF remaining = <<>> THEN ""
                                    ELSE remaining[1].profile_id
                               ELSE on_disk.default]

\* ProfileStore.set_default_profile
SetDefaultProfile(pid) ==
    IF pid = ""
    THEN resp' = ProfileCall("set_default_profile", pid, "ValueError") /\ on_disk' = on_disk
    ELSE IF SafeProfileFilename[pid] \notin DOMAIN on_disk.files
    THEN resp' = ProfileCall("set_default_profile", pid, "KeyError") /\ on_disk' = on_disk
    ELSE /\ resp' = ProfileCall("set_default_profile", pid, "")
         /\ on_disk' = [on_disk EXCEPT !.default = pid]

ProfileStoreUnchanged ==
    UNCHANGED <<specs, adapters, adapter_errors, adapter_lock, pc, req, ret, builds, returned>>

DoSaveProfile(ids) ==
    \E pid \in ids, name \in ProfileNames, status \in {"ready", "invalid"} :
        SaveProfile(pid, name, status) /\ ProfileStoreUnchanged

DoDeleteProfile(ids) ==
    \E pid \in ids \cup {""} : DeleteProfile(pid) /\ ProfileStoreUnchanged

DoSetDefaultProfile(ids) ==
    \E pid \in ids \cup {""} : SetDefaultProfile(pid) /\ ProfileStoreUnchanged

InitProfiles == InitStoreOver(EmptyDict, [files |-> EmptyDict, default |-> ""])

NextProfiles ==
    \/ DoSaveProfile(ProfileIds)
    \/ DoDeleteProfile(ProfileIds)
    \/ DoSetDefaultProfile(ProfileIds)

SpecProfiles == InitProfiles /\ [][NextProfiles]_vars

\* The same store called only with profile ids that are their own file name.
NextPlainProfiles ==
    \/ DoSaveProfile({"ab", "cd"})
    \/ DoDeleteProfile({"ab", "cd"})
    \/ DoSetDefaultProfile({"ab", "cd"})

SpecPlainProfiles == InitProfiles /\ [][NextPlainProfiles]_vars

\* C30: after any calls of save_profile, delete_profile and
\* set_default_profile on an empty store, the stored default_profile_id is
\* empty when no profile is stored and otherwise the profile_id of a stored
\* profile, of which list_profiles marks exactly one as is_default; a call
\* that raises leaves the profiles and the default unchanged.
C30_DefaultIsStored ==
    LET listed == ListProfiles(on_disk)
    IN /\ (DOMAIN on_disk.files = {}) => on_disk.default = ""
       /\ (DOMAIN on_disk.files # {}) =>
             /\ \E fn \in DOMAIN on_disk.files : on_disk.files[fn].profile_id = on_disk.default
             /\ Cardinality({i \in 1..Len(listed) : listed[i].is_default}) = 1
       /\ (resp # NoResp /\ resp.raised # "") => on_disk = resp.before

====
